---- MODULE Spec2Model ----
(***************************************************************************)
(* Model of components/raftstore/src/store/entry_storage.rs: the entry     *)
(* cache (EntryCache), the async log-fetch slots and the EntryStorage      *)
(* facade of one raft peer.                                                *)
(*                                                                         *)
(* An entry is [index, term, len]: len is the length (= capacity) of its   *)
(* data payload; context is empty.  The raft engine holds `log`, a         *)
(* sequence whose i-th element is the entry of index i.                    *)
(***************************************************************************)
EXTENDS Integers, Sequences, FiniteSets, TLC

(* ---------------------------- bounds ----------------------------------- *)
\* highest log index an append may create
MaxIndex == 3
\* highest term of an appended entry
MaxTerm == 2
\* longest run handed to one append
MaxRun == 2
\* most batches kept in the trace queue by the driver
MaxTrace == 1
\* most bytes the gauge may be above the cache's own total when a cache is
\* dropped (caps the drift of the gauge)
MaxGaugeExcess == 2

\* length of the log a peer restarts with in the fetch specifications: long
\* enough for a gap of RAFT_LOG_MULTI_GET_CNT entries after a fetched result
FetchLogLen == 10
\* most fetch tasks and results between the driver and the fetch worker
MaxInFlight == 2
\* highest truncated index the driver reports in the fetch specifications
MaxTruncated == 1

(* ------------------------ program constants ---------------------------- *)
MAX_ASYNC_FETCH_TRY_CNT == 3
SHRINK_CACHE_CAPACITY == 64
\* mem::size_of::<Entry>()
ENTRY_MEM_SIZE == 104
\* mem::size_of::<CachedEntries>()
CACHED_ENTRIES_MEM_SIZE == 24
\* capacity() of a VecDeque built by Default
DEFAULT_DEQUE_CAPACITY == 7
\* engine_traits::RAFT_LOG_MULTI_GET_CNT
RAFT_LOG_MULTI_GET_CNT == 8
\* u64::MAX, used as "no limit" and as "no index"; a stand-in above every
\* index and size of the model
U64_MAX == 1000000

(* ------------------------------ helpers -------------------------------- *)
Min(a, b) == IF a < b THEN a ELSE b
Max(a, b) == IF a > b THEN a ELSE b

RECURSIVE SumSeq(_)
SumSeq(s) == IF s = <<>> THEN 0 ELSE Head(s) + SumSeq(Tail(s))

\* entries.len() of data: the payload length depends on index and term so
\* that sizes differ between entries and change when an index is rewritten
PayloadLen(i, t) == 1 + ((i + t) % 2)

\* new_padded_entry(index, term, pad_len)
NewEntry(i, t) == [index |-> i, term |-> t, len |-> PayloadLen(i, t)]

\* protobuf Entry::compute_size(): 2 bytes each for index and term (both
\* below 128), 2 + len for the data field
ComputeSize(e) == 4 + 2 + e.len

\* bytes_capacity(&e.data) + bytes_capacity(&e.context)
BytesCapacity(e) == e.len + 0

RECURSIVE SizeOfEntries(_)
SizeOfEntries(ents) ==
    IF ents = <<>> THEN 0 ELSE ComputeSize(Head(ents)) + SizeOfEntries(Tail(ents))

RECURSIVE PayloadOfEntries(_)
PayloadOfEntries(ents) ==
    IF ents = <<>> THEN 0 ELSE BytesCapacity(Head(ents)) + PayloadOfEntries(Tail(ents))

\* raft::util::limit_size: keep the longest prefix whose size is <= max, but
\* always keep the first entry
RECURSIVE LimitCount(_, _, _, _)
LimitCount(ents, max, n, size) ==
    IF n >= Len(ents) THEN n
    ELSE LET size2 == size + ComputeSize(ents[n + 1])
         IN  IF n > 0 /\ size2 > max THEN n
             ELSE LimitCount(ents, max, n + 1, size2)

limit_size(ents, max) ==
    IF Len(ents) <= 1 \/ max = U64_MAX THEN ents
    ELSE SubSeq(ents, 1, LimitCount(ents, max, 0, 0))

(* VecDeque capacity (std ring buffer whose buffer length is a power of   *)
(* two and whose capacity() is the buffer length minus one)               *)
RECURSIVE GrownCapacity(_, _)
GrownCapacity(cap, len) ==
    IF len <= cap THEN cap ELSE GrownCapacity(2 * cap + 1, len)

RECURSIVE NextPowerOfTwo(_, _)
NextPowerOfTwo(n, p) == IF p >= n THEN p ELSE NextPowerOfTwo(n, 2 * p)

\* VecDeque::shrink_to(min_capacity)
ShrunkCapacity(cap, len, min_capacity) ==
    Min(cap, NextPowerOfTwo(Max(Max(min_capacity, len) + 1, 2), 1) - 1)


(* ------------------------------- state --------------------------------- *)
VARIABLES
    log,                  \* raft_engine: the entries of the raft log, by index
    cache,                \* EntryStorage.cache: the EntryCache struct
    raft_state,           \* RaftLocalState: last_index, hard_state term/commit
    apply_state,          \* RaftApplyState: applied_index, truncated_state
    last_term,            \* EntryStorage.last_term
    async_fetch_results,  \* low -> NoSlot | Fetching | Fetched(result)
    fetch_tasks,          \* tasks scheduled on the raftlog fetch worker
    fetch_results,        \* results the worker has sent, not yet delivered
    mem_gauge,            \* RAFT_ENTRIES_CACHES_GAUGE: sum of published deltas
    scheduled,            \* low -> number of fetch tasks ever scheduled
    apply_batches,        \* the CachedEntries handles the apply side holds
    ret                   \* the last call: operation, arguments and outcome

vars == <<log, cache, raft_state, apply_state, last_term, async_fetch_results,
          fetch_tasks, fetch_results, mem_gauge, scheduled, apply_batches, ret>>

Lows == 1..MaxIndex

NoSlot == [state |-> "None"]
Fetching == [state |-> "Fetching"]
Fetched(res) == [state |-> "Fetched", res |-> res]

\* the outcome record of a call; every action fills the fields it uses
\* (task: the WriteTask an append has filled; the outcome of entries() keeps
\* the task of the append that came right before it; idx: the argument of
\* compact_to and term; term, via: the term returned by term() and where it
\* came from; fetch_unused, fetch_invalid, async_fetch, fallback_fetch: the
\* increments of these counters of raftlog_fetch_stats; hit, miss: the
\* increments of these counters of the cache)
NoRet == [op |-> "new", low |-> 0, high |-> 0, max_size |-> 0, can_async |-> FALSE,
          res |-> "Ok", ents |-> <<>>, removed |-> <<>>, sync_reads |-> 0, tasks |-> 0,
          task |-> [entries |-> <<>>, cut_logs |-> <<>>],
          idx |-> 0, term |-> 0, via |-> "none", fetch_unused |-> 0, fetch_invalid |-> 0,
          async_fetch |-> 0, fallback_fetch |-> 0, hit |-> 0, miss |-> 0]

\* a panic (failed assertion, unwrap of None, index out of range) ends the peer
Running == ret.res # "Panic"

(* ----------------------------- EntryCache ------------------------------ *)
\* EntryCache::total_mem_size
total_mem_size(c) ==
    PayloadOfEntries(c.cache)
        + ENTRY_MEM_SIZE * c.cache_cap
        + CACHED_ENTRIES_MEM_SIZE * c.trace_cap

\* impl Default for EntryCache
EntryCacheDefault ==
    [persisted |-> 0, cache |-> <<>>, trace |-> <<>>,
     cache_cap |-> DEFAULT_DEQUE_CAPACITY, trace_cap |-> DEFAULT_DEQUE_CAPACITY]

\* EntryCache::first_index, with unwrap_or(u64::MAX)
CacheFirstIndex(c) == IF c.cache = <<>> THEN U64_MAX ELSE c.cache[1].index

CacheLastIndex(c) == c.cache[Len(c.cache)].index

\* EntryCache::shrink_if_necessary: the capacity after the call
shrink_if_necessary(c) ==
    IF Len(c.cache) < SHRINK_CACHE_CAPACITY /\ c.cache_cap > SHRINK_CACHE_CAPACITY
    THEN ShrunkCapacity(c.cache_cap, Len(c.cache), 0)
    ELSE c.cache_cap

\* mutant of TruncateTo: the truncation point is one too high, so the entry at
\* the first appended index stays in the cache
TruncateToOffByOne(c, entries) ==
    LET cache_last_index == CacheLastIndex(c)
        first_index == entries[1].index
        cache_len == Len(c.cache)
    IN  IF cache_last_index >= first_index
        THEN Min(cache_len, Max(cache_len - (cache_last_index - first_index), 0))
        ELSE cache_len

\* EntryCache::append_impl: the number of cached entries that stay (0-based
\* truncate_to), or Len when nothing is truncated
TruncateTo(c, entries) ==
    LET cache_last_index == CacheLastIndex(c)
        first_index == entries[1].index
        cache_len == Len(c.cache)
        overlap == cache_last_index - first_index + 1
    IN  IF cache_last_index >= first_index
        THEN (IF cache_len >= overlap THEN cache_len - overlap ELSE 0)
        ELSE cache_len

\* EntryCache::append_impl: does the call panic (hole, or a traced entry
\* would be truncated)
AppendPanics(c, entries) ==
    /\ c.cache # <<>>
    /\ LET cache_last_index == CacheLastIndex(c)
           first_index == entries[1].index
       IN  \/ /\ cache_last_index >= first_index
              /\ c.trace # <<>>
              /\ ~(c.trace[Len(c.trace)].range.end - 1
                     < c.cache[TruncateTo(c, entries) + 1].index)
           \/ /\ cache_last_index < first_index
              /\ cache_last_index + 1 < first_index

\* mutant of CacheAppend: the overlapped tail is dropped but the first of the
\* dropped entries is pushed again in place of the first appended one
CacheAppendKeepFirst(c, entries) ==
    LET keep == IF c.cache = <<>> THEN 0 ELSE TruncateTo(c, entries)
        kept == SubSeq(c.cache, 1, keep)
        dropped == SubSeq(c.cache, keep + 1, Len(c.cache))
        pushed == IF dropped = <<>> THEN entries ELSE <<dropped[1]>> \o Tail(entries)
        new_cache == kept \o pushed
        grown == GrownCapacity(c.cache_cap, Len(new_cache))
    IN  [cache |-> [c EXCEPT !.cache = new_cache, !.cache_cap = grown],
         delta |-> PayloadOfEntries(pushed) - PayloadOfEntries(dropped)
                     + ENTRY_MEM_SIZE * (grown - c.cache_cap)]

\* mutant of CacheAppend: the last of the entries is not pushed
CacheAppendDropLast(c, entries) ==
    LET keep == IF c.cache = <<>> THEN 0 ELSE TruncateTo(c, entries)
        dropped == SubSeq(c.cache, keep + 1, Len(c.cache))
        pushed == SubSeq(entries, 1, Len(entries) - 1)
        new_cache == SubSeq(c.cache, 1, keep) \o pushed
        grown == GrownCapacity(c.cache_cap, Len(new_cache))
    IN  [cache |-> [c EXCEPT !.cache = new_cache, !.cache_cap = grown],
         delta |-> PayloadOfEntries(pushed) - PayloadOfEntries(dropped)
                     + ENTRY_MEM_SIZE * (grown - c.cache_cap)]

\* EntryCache::append (non-empty entries, no panic): the cache after the call
\* and the published size change
CacheAppend(c, entries) ==
    LET keep == IF c.cache = <<>> THEN 0 ELSE TruncateTo(c, entries)
        kept == SubSeq(c.cache, 1, keep)
        dropped == SubSeq(c.cache, keep + 1, Len(c.cache))
        new_cache == kept \o entries
        grown == GrownCapacity(c.cache_cap, Len(new_cache))
        c1 == [c EXCEPT !.cache = new_cache, !.cache_cap = grown]
        shrunk == shrink_if_necessary(c1)
    IN  [cache |-> [c1 EXCEPT !.cache_cap = shrunk],
         delta |-> PayloadOfEntries(entries) - PayloadOfEntries(dropped)
                     + ENTRY_MEM_SIZE * (grown - c.cache_cap)
                     + ENTRY_MEM_SIZE * (shrunk - grown)]

\* mutant of take_entries: the interior is copied and left in place
TakeEntriesCopy(cell) ==
    [entries |-> cell.entries, dangle |-> cell.dangle, cell |-> cell]

\* CachedEntries::take_entries: mem::take of the interior under its lock;
\* the entries and the dangle size the caller obtains, and the batch with
\* the empty interior it leaves
take_entries(cell) ==
    [entries |-> cell.entries, dangle |-> cell.dangle,
     cell |-> [cell EXCEPT !.entries = <<>>, !.dangle = 0]]

\* mutant of DrainTrace: idx is not raised to the end of a popped batch
RECURSIVE DrainTraceNoRaise(_, _, _)
DrainTraceNoRaise(tr, idx, dangle) ==
    IF tr = <<>> \/ Head(tr).range.start >= idx
    THEN [trace |-> tr, idx |-> idx, dangle |-> dangle, stopped |-> tr # <<>>]
    ELSE DrainTraceNoRaise(Tail(tr), idx, dangle + Head(tr).dangle)

\* EntryCache::compact_to, the loop over the trace queue: pops the batches
\* that start below idx, raising idx to the end of each popped batch
RECURSIVE DrainTrace(_, _, _)
DrainTrace(tr, idx, dangle) ==
    IF tr = <<>> \/ Head(tr).range.start >= idx
    THEN [trace |-> tr, idx |-> idx, dangle |-> dangle, stopped |-> tr # <<>>]
    ELSE DrainTrace(Tail(tr), Max(Head(tr).range.end, idx),
                    dangle + take_entries(Head(tr)).dangle)

\* mutant of ClampToPersisted: no clamp
ClampNone(c, idx) == idx

\* mutant of ClampToPersisted: the clamp is persisted instead of persisted + 1
ClampBelowPersisted(c, idx) == IF idx > c.persisted THEN c.persisted ELSE idx

\* EntryCache::compact_to: only the persisted entries can be compacted
ClampToPersisted(c, idx) == IF idx > c.persisted + 1 THEN c.persisted + 1 ELSE idx

\* EntryCache::compact_to: the cache after the call, the published size
\* change and the entries removed from the cache window
compact_to(c, idx0) ==
    LET d == DrainTrace(c.trace, ClampToPersisted(c, idx0), 0)
        idx == d.idx
        new_trace_cap ==
            IF d.stopped /\ Len(d.trace) < SHRINK_CACHE_CAPACITY
                         /\ c.trace_cap > SHRINK_CACHE_CAPACITY
            THEN ShrunkCapacity(c.trace_cap, Len(d.trace), SHRINK_CACHE_CAPACITY)
            ELSE c.trace_cap
        trace_change == CACHED_ENTRIES_MEM_SIZE * (new_trace_cap - c.trace_cap) - d.dangle
        c1 == [c EXCEPT !.trace = d.trace, !.trace_cap = new_trace_cap]
        cache_first_idx == CacheFirstIndex(c)
    IN  IF cache_first_idx >= idx
        THEN [cache |-> c1, delta |-> trace_change, removed |-> <<>>]
        ELSE LET cache_last_idx == CacheLastIndex(c)
                 n == Min(cache_last_idx + 1, idx) - cache_first_idx
                 removed == SubSeq(c.cache, 1, n)
                 c2 == [c1 EXCEPT !.cache = SubSeq(c.cache, n + 1, Len(c.cache))]
                 shrunk == shrink_if_necessary(c2)
             IN  [cache |-> [c2 EXCEPT !.cache_cap = shrunk],
                  delta |-> trace_change - PayloadOfEntries(removed)
                              + ENTRY_MEM_SIZE * (shrunk - c.cache_cap),
                  removed |-> removed]

\* mutant of DangleSize: every entry of the batch counts as dangling
DangleSizeWhole(c, entries) == PayloadOfEntries(entries)

\* EntryCache::trace_cached_entries: the dangle size of a batch, the bytes
\* of its entries that are not in the cache window
DangleSize(c, entries) ==
    LET last_idx == entries[Len(entries)].index
        cache_front == CacheFirstIndex(c)
        dangle == IF last_idx < cache_front THEN entries
                  ELSE IF \E i \in 1..Len(entries) : entries[i].index = cache_front
                  THEN SubSeq(entries, 1,
                              (CHOOSE i \in 1..Len(entries) :
                                   entries[i].index = cache_front) - 1)
                  ELSE <<>>
    IN  PayloadOfEntries(dangle)

\* CachedEntries::new
CachedEntriesNew(entries) ==
    [range |-> [start |-> entries[1].index, end |-> entries[Len(entries)].index + 1],
     entries |-> entries, dangle |-> 0]

\* EntryCache::trace_cached_entries (the batch still holds its entries)
trace_cached_entries(c, batch) ==
    LET dangle_size == DangleSize(c, batch.entries)
        new_cap == GrownCapacity(c.trace_cap, Len(c.trace) + 1)
    IN  [cache |-> [c EXCEPT !.trace = Append(@, [batch EXCEPT !.dangle = dangle_size]),
                             !.trace_cap = new_cap],
         delta |-> CACHED_ENTRIES_MEM_SIZE * (new_cap - c.trace_cap) + dangle_size]

\* mutant of TakeWhile: the byte cap is compared with < instead of <=
RECURSIVE TakeWhileStrict(_, _, _, _, _, _)
TakeWhileStrict(c, end_idx, limit_idx, fetched_size, max_size, ok) ==
    IF end_idx >= Len(c)
    THEN [end_idx |-> end_idx, fetched_size |-> fetched_size, ok |-> ok]
    ELSE LET m == ComputeSize(c[end_idx + 1])
             size == fetched_size + m
             taken == [end_idx |-> end_idx + 1, fetched_size |-> size, ok |-> ok]
         IN  IF size = m
             THEN (IF size < max_size /\ end_idx + 1 < limit_idx
                   THEN TakeWhileStrict(c, end_idx + 1, limit_idx, size, max_size, ok)
                   ELSE taken)
             ELSE IF size < max_size
             THEN (IF end_idx + 1 < limit_idx
                   THEN TakeWhileStrict(c, end_idx + 1, limit_idx, size, max_size, ok)
                   ELSE taken)
             ELSE [end_idx |-> end_idx, fetched_size |-> size + 1, ok |-> ok]

\* EntryCache::fetch_entries_to, the take_while loop from 0-based position
\* end_idx on: where it stops, the size counted, and whether every visited
\* entry passed assert_eq!(e.get_index(), cur_idx)
RECURSIVE TakeWhile(_, _, _, _, _, _)
TakeWhile(c, end_idx, limit_idx, fetched_size, max_size, ok) ==
    IF end_idx >= Len(c)
    THEN [end_idx |-> end_idx, fetched_size |-> fetched_size, ok |-> ok]
    ELSE LET e == c[end_idx + 1]
             ok2 == ok /\ e.index = end_idx + c[1].index
             m == ComputeSize(e)
             size == fetched_size + m
             taken == [end_idx |-> end_idx + 1, fetched_size |-> size, ok |-> ok2]
         IN  IF size = m
             THEN (IF size <= max_size /\ end_idx + 1 < limit_idx
                   THEN TakeWhile(c, end_idx + 1, limit_idx, size, max_size, ok2)
                   ELSE taken)
             ELSE IF size <= max_size
             THEN (IF end_idx + 1 < limit_idx
                   THEN TakeWhile(c, end_idx + 1, limit_idx, size, max_size, ok2)
                   ELSE taken)
             ELSE [end_idx |-> end_idx, fetched_size |-> size, ok |-> ok2]

\* EntryCache::fetch_entries_to: does an assertion or an unwrap of it fail
FetchEntriesPanics(c, begin, end, fetched_size, max_size) ==
    /\ begin < end
    /\ \/ c.cache = <<>>
       \/ begin < c.cache[1].index
       \/ LET cache_low == c.cache[1].index
              t == TakeWhile(c.cache, begin - cache_low, end - cache_low,
                             fetched_size, max_size, TRUE)
          IN  \/ ~t.ok
              \/ ~(t.end_idx = end - cache_low \/ t.fetched_size > max_size)

\* mutant of fetch_entries_to: the iterator does not skip to start_idx, the
\* entries are taken from the front of the cache
FetchEntriesToNoSkip(c, begin, end, fetched_size, max_size) ==
    IF begin >= end THEN <<>>
    ELSE LET t == TakeWhile(c.cache, 0, end - begin, fetched_size, max_size, TRUE)
         IN  SubSeq(c.cache, 1, t.end_idx)

\* EntryCache::fetch_entries_to: the entries appended to ents
fetch_entries_to(c, begin, end, fetched_size, max_size) ==
    IF begin >= end THEN <<>>
    ELSE LET cache_low == c.cache[1].index
             start_idx == begin - cache_low
             t == TakeWhile(c.cache, start_idx, end - cache_low,
                            fetched_size, max_size, TRUE)
         IN  SubSeq(c.cache, start_idx + 1, t.end_idx)

(* ------------------------- raft engine, worker -------------------------- *)
\* an index of the log that was never written (a hole left by an append)
NoEntry == [index |-> 0, term |-> 0, len |-> 0]

\* RaftEngineReadOnly::get_entry: the entry, or <<>> for None
get_entry(idx) ==
    IF idx \in 1..Len(log) /\ log[idx] # NoEntry THEN <<log[idx]>> ELSE <<>>

\* RaftEngineReadOnly::fetch_entries_to(low, high, Some(max_size)): the
\* entries of [low, high) cut to the byte cap (the first one always kept);
\* an error when an entry of the range is missing before the cap is hit
engine_fetch_entries_to(low, high, max_size) ==
    LET span == SubSeq(log, low, Min(high - 1, Len(log)))
        present == IF \A k \in 1..Len(span) : span[k] # NoEntry THEN span
                   ELSE SubSeq(span, 1, (CHOOSE n \in 0..Len(span) :
                                             /\ \A k \in 1..n : span[k] # NoEntry
                                             /\ span[n + 1] = NoEntry))
        capped == limit_size(present, max_size)
    IN  IF Len(capped) = high - low \/ Len(capped) < Len(present)
        THEN [ok |-> TRUE, err |-> "Ok", ents |-> capped]
        ELSE [ok |-> FALSE, err |-> "EngineError", ents |-> <<>>]

\* the fetch worker running RaftlogFetchTask::PeerStorage: one engine read,
\* answered with a RaftlogFetchResult
RaftlogFetchResult(task) ==
    LET r == engine_fetch_entries_to(task.low, task.high, task.max_size)
    IN  [ok |-> r.ok, err |-> r.err, ents |-> r.ents,
         low |-> task.low, max_size |-> task.max_size,
         hit_size_limit |-> r.ok /\ Len(r.ents) # task.high - task.low,
         tried_cnt |-> task.tried_cnt, term |-> task.term]

(* ---------------------------- EntryStorage ----------------------------- *)
truncated_index == apply_state.truncated_index
truncated_term == apply_state.truncated_term
last_index == raft_state.last_index
commit_index == raft_state.commit

\* mutant of check_range: the upper bound is checked before the truncated index
CheckRangeBoundFirst(low, high) ==
    IF low > high THEN "LowGreaterThanHigh"
    ELSE IF high > last_index + 1 THEN "OutOfBound"
    ELSE IF low <= truncated_index THEN "Compacted"
    ELSE "Ok"

\* EntryStorage::check_range
check_range(low, high) ==
    IF low > high THEN "LowGreaterThanHigh"
    ELSE IF low <= truncated_index THEN "Compacted"
    ELSE IF high > last_index + 1 THEN "OutOfBound"
    ELSE "Ok"

\* mutant of StitchSync: the loop ends after its first engine read
StitchSyncOneRead(idx, high, fetched_size, max_size, got) ==
    IF idx >= high THEN [res |-> "Ok", ents |-> got, reads |-> Len(got)]
    ELSE LET ent == get_entry(idx)
         IN  IF ent = <<>>
             THEN [res |-> "Unavailable", ents |-> <<>>, reads |-> Len(got) + 1]
             ELSE IF fetched_size + ComputeSize(ent[1]) > max_size
             THEN [res |-> "Ok", ents |-> got, reads |-> Len(got) + 1]
             ELSE [res |-> "Ok", ents |-> got \o ent, reads |-> Len(got) + 1]

\* EntryStorage::async_fetch, the stitch branch: the entries read from the
\* engine one by one after `last`, until one is missing or the cap is hit
RECURSIVE StitchSync(_, _, _, _, _)
StitchSync(idx, high, fetched_size, max_size, got) ==
    IF idx >= high THEN [res |-> "Ok", ents |-> got, reads |-> Len(got)]
    ELSE LET ent == get_entry(idx)
         IN  IF ent = <<>>
             THEN [res |-> "Unavailable", ents |-> <<>>, reads |-> Len(got) + 1]
             ELSE IF fetched_size + ComputeSize(ent[1]) > max_size
             THEN [res |-> "Ok", ents |-> got, reads |-> Len(got) + 1]
             ELSE StitchSync(idx + 1, high, fetched_size + ComputeSize(ent[1]),
                             max_size, got \o ent)

\* the outcome of a fetch: result, entries appended to buf, the slot left
\* under `low`, the tasks scheduled, the synchronous engine reads made and
\* the branch taken
FetchOutcome(res, ents, slot, tasks, reads, branch) ==
    [res |-> res, ents |-> ents, slot |-> slot, tasks |-> tasks,
     sync_reads |-> reads, branch |-> branch]

\* mutant of FallbackOrSchedule: the synchronous fallback starts one try early
FallbackOneTryEarly(low, high, max_size, tried_cnt) ==
    IF tried_cnt + 1 >= MAX_ASYNC_FETCH_TRY_CNT
    THEN LET r == engine_fetch_entries_to(low, high, max_size)
         IN  FetchOutcome(r.err, r.ents, NoSlot, <<>>, 1, "fallback")
    ELSE FetchOutcome("LogTemporarilyUnavailable", <<>>, Fetching,
                      <<[low |-> low, high |-> high, max_size |-> max_size,
                         tried_cnt |-> tried_cnt, term |-> raft_state.term]>>,
                      0, "schedule")

\* mutant of FallbackOrSchedule: no synchronous fallback, a task is scheduled
\* whatever the number of tries
ScheduleAlways(low, high, max_size, tried_cnt) ==
    FetchOutcome("LogTemporarilyUnavailable", <<>>, Fetching,
                 <<[low |-> low, high |-> high, max_size |-> max_size,
                    tried_cnt |-> tried_cnt, term |-> raft_state.term]>>,
                 0, "schedule")

\* mutant of FallbackOrSchedule: every scheduled task carries tried_cnt 1
ScheduleFirstTry(low, high, max_size, tried_cnt) ==
    IF tried_cnt >= MAX_ASYNC_FETCH_TRY_CNT
    THEN LET r == engine_fetch_entries_to(low, high, max_size)
         IN  FetchOutcome(r.err, r.ents, NoSlot, <<>>, 1, "fallback")
    ELSE FetchOutcome("LogTemporarilyUnavailable", <<>>, Fetching,
                      <<[low |-> low, high |-> high, max_size |-> max_size,
                         tried_cnt |-> 1, term |-> raft_state.term]>>,
                      0, "schedule")

\* mutant of FallbackOrSchedule: the task carries the term the peer started
\* with, not the current term of the hard state
ScheduleInitialTerm(low, high, max_size, tried_cnt) ==
    IF tried_cnt >= MAX_ASYNC_FETCH_TRY_CNT
    THEN LET r == engine_fetch_entries_to(low, high, max_size)
         IN  FetchOutcome(r.err, r.ents, NoSlot, <<>>, 1, "fallback")
    ELSE FetchOutcome("LogTemporarilyUnavailable", <<>>, Fetching,
                      <<[low |-> low, high |-> high, max_size |-> max_size,
                         tried_cnt |-> tried_cnt, term |-> 1]>>,
                      0, "schedule")

\* mutant of FallbackOrSchedule: the synchronous fallback reads without a byte cap
FallbackUncapped(low, high, max_size, tried_cnt) ==
    IF tried_cnt >= MAX_ASYNC_FETCH_TRY_CNT
    THEN LET r == engine_fetch_entries_to(low, high, U64_MAX)
         IN  FetchOutcome(r.err, r.ents, NoSlot, <<>>, 1, "fallback")
    ELSE FetchOutcome("LogTemporarilyUnavailable", <<>>, Fetching,
                      <<[low |-> low, high |-> high, max_size |-> max_size,
                         tried_cnt |-> tried_cnt, term |-> raft_state.term]>>,
                      0, "schedule")

\* EntryStorage::async_fetch, from "tried_cnt >= MAX_ASYNC_FETCH_TRY_CNT" on:
\* fall back to a synchronous range read, or schedule a task
FallbackOrSchedule(low, high, max_size, tried_cnt) ==
    IF tried_cnt >= MAX_ASYNC_FETCH_TRY_CNT
    THEN LET r == engine_fetch_entries_to(low, high, max_size)
         IN  FetchOutcome(r.err, r.ents, NoSlot, <<>>, 1, "fallback")
    ELSE FetchOutcome("LogTemporarilyUnavailable", <<>>, Fetching,
                      <<[low |-> low, high |-> high, max_size |-> max_size,
                         tried_cnt |-> tried_cnt, term |-> raft_state.term]>>,
                      0, "schedule")

\* mutant of UseFetched: a result that covers the range is returned whole,
\* not cut at high
UseFetchedNoTruncate(res, low, high, max_size) ==
    IF res.low # low THEN FetchOutcome("Panic", <<>>, NoSlot, <<>>, 0, "panic")
    ELSE IF ~res.ok THEN FetchOutcome(res.err, <<>>, NoSlot, <<>>, 0, "error")
    ELSE IF res.ents = <<>> \/ res.ents[1].index # res.low
    THEN FetchOutcome("Panic", <<>>, NoSlot, <<>>, 0, "panic")
    ELSE LET ents == res.ents
             first == ents[1].index
             last == ents[Len(ents)].index
             cut == IF max_size < res.max_size THEN max_size ELSE U64_MAX
         IN  IF last + 1 >= high
             THEN (IF ents[high - first].index # high - 1
                   THEN FetchOutcome("Panic", <<>>, NoSlot, <<>>, 0, "panic")
                   ELSE FetchOutcome("Ok", limit_size(ents, cut),
                                     NoSlot, <<>>, 0, "covers"))
             ELSE IF res.hit_size_limit /\ max_size <= res.max_size
             THEN FetchOutcome("Ok", limit_size(ents, cut), NoSlot, <<>>, 0, "size_limit")
             ELSE IF /\ last + RAFT_LOG_MULTI_GET_CNT > high - 1
                     /\ res.tried_cnt + 1 = MAX_ASYNC_FETCH_TRY_CNT
             THEN LET fetched_size == SizeOfEntries(ents)
                  IN  IF max_size <= fetched_size
                      THEN FetchOutcome("Ok", limit_size(ents, max_size),
                                        NoSlot, <<>>, 0, "stitch_capped")
                      ELSE LET st == StitchSync(last + 1, high, fetched_size,
                                                max_size, <<>>)
                           IN  FetchOutcome(st.res,
                                   IF st.res = "Ok" THEN ents \o st.ents ELSE <<>>,
                                   NoSlot, <<>>, st.reads, "stitch")
             ELSE FallbackOrSchedule(low, high, max_size, res.tried_cnt + 1)

\* mutant of UseFetched: a result cut short by its byte cap is reused whatever
\* the byte cap of the call
UseFetchedAnyCap(res, low, high, max_size) ==
    IF res.low # low THEN FetchOutcome("Panic", <<>>, NoSlot, <<>>, 0, "panic")
    ELSE IF ~res.ok THEN FetchOutcome(res.err, <<>>, NoSlot, <<>>, 0, "error")
    ELSE IF res.ents = <<>> \/ res.ents[1].index # res.low
    THEN FetchOutcome("Panic", <<>>, NoSlot, <<>>, 0, "panic")
    ELSE LET ents == res.ents
             first == ents[1].index
             last == ents[Len(ents)].index
             cut == IF max_size < res.max_size THEN max_size ELSE U64_MAX
         IN  IF last + 1 >= high
             THEN (IF ents[high - first].index # high - 1
                   THEN FetchOutcome("Panic", <<>>, NoSlot, <<>>, 0, "panic")
                   ELSE FetchOutcome("Ok", limit_size(SubSeq(ents, 1, high - first), cut),
                                     NoSlot, <<>>, 0, "covers"))
             ELSE IF res.hit_size_limit
             THEN FetchOutcome("Ok", limit_size(ents, cut), NoSlot, <<>>, 0, "size_limit")
             ELSE IF /\ last + RAFT_LOG_MULTI_GET_CNT > high - 1
                     /\ res.tried_cnt + 1 = MAX_ASYNC_FETCH_TRY_CNT
             THEN LET fetched_size == SizeOfEntries(ents)
                  IN  IF max_size <= fetched_size
                      THEN FetchOutcome("Ok", limit_size(ents, max_size),
                                        NoSlot, <<>>, 0, "stitch_capped")
                      ELSE LET st == StitchSync(last + 1, high, fetched_size,
                                                max_size, <<>>)
                           IN  FetchOutcome(st.res,
                                   IF st.res = "Ok" THEN ents \o st.ents ELSE <<>>,
                                   NoSlot, <<>>, st.reads, "stitch")
             ELSE FallbackOrSchedule(low, high, max_size, res.tried_cnt + 1)

\* mutant of UseFetched: a result that holds an error is taken as a stale one
\* and the range is fetched again
UseFetchedRetryOnError(res, low, high, max_size) ==
    IF res.low # low THEN FetchOutcome("Panic", <<>>, NoSlot, <<>>, 0, "panic")
    ELSE IF ~res.ok THEN FallbackOrSchedule(low, high, max_size, res.tried_cnt + 1)
    ELSE IF res.ents = <<>> \/ res.ents[1].index # res.low
    THEN FetchOutcome("Panic", <<>>, NoSlot, <<>>, 0, "panic")
    ELSE LET ents == res.ents
             first == ents[1].index
             last == ents[Len(ents)].index
             cut == IF max_size < res.max_size THEN max_size ELSE U64_MAX
         IN  IF last + 1 >= high
             THEN (IF ents[high - first].index # high - 1
                   THEN FetchOutcome("Panic", <<>>, NoSlot, <<>>, 0, "panic")
                   ELSE FetchOutcome("Ok", limit_size(SubSeq(ents, 1, high - first), cut),
                                     NoSlot, <<>>, 0, "covers"))
             ELSE IF res.hit_size_limit /\ max_size <= res.max_size
             THEN FetchOutcome("Ok", limit_size(ents, cut), NoSlot, <<>>, 0, "size_limit")
             ELSE IF /\ last + RAFT_LOG_MULTI_GET_CNT > high - 1
                     /\ res.tried_cnt + 1 = MAX_ASYNC_FETCH_TRY_CNT
             THEN LET fetched_size == SizeOfEntries(ents)
                  IN  IF max_size <= fetched_size
                      THEN FetchOutcome("Ok", limit_size(ents, max_size),
                                        NoSlot, <<>>, 0, "stitch_capped")
                      ELSE LET st == StitchSync(last + 1, high, fetched_size,
                                                max_size, <<>>)
                           IN  FetchOutcome(st.res,
                                   IF st.res = "Ok" THEN ents \o st.ents ELSE <<>>,
                                   NoSlot, <<>>, st.reads, "stitch")
             ELSE FallbackOrSchedule(low, high, max_size, res.tried_cnt + 1)

\* EntryStorage::async_fetch, the reuse of a fetched result
UseFetched(res, low, high, max_size) ==
    IF res.low # low THEN FetchOutcome("Panic", <<>>, NoSlot, <<>>, 0, "panic")
    ELSE IF ~res.ok THEN FetchOutcome(res.err, <<>>, NoSlot, <<>>, 0, "error")
    ELSE IF res.ents = <<>> \/ res.ents[1].index # res.low
    THEN FetchOutcome("Panic", <<>>, NoSlot, <<>>, 0, "panic")
    ELSE LET ents == res.ents
             first == ents[1].index
             last == ents[Len(ents)].index
             cut == IF max_size < res.max_size THEN max_size ELSE U64_MAX
         IN  IF last + 1 >= high
             THEN (IF ents[high - first].index # high - 1
                   THEN FetchOutcome("Panic", <<>>, NoSlot, <<>>, 0, "panic")
                   ELSE FetchOutcome("Ok", limit_size(SubSeq(ents, 1, high - first), cut),
                                     NoSlot, <<>>, 0, "covers"))
             ELSE IF res.hit_size_limit /\ max_size <= res.max_size
             THEN FetchOutcome("Ok", limit_size(ents, cut), NoSlot, <<>>, 0, "size_limit")
             ELSE IF /\ last + RAFT_LOG_MULTI_GET_CNT > high - 1
                     /\ res.tried_cnt + 1 = MAX_ASYNC_FETCH_TRY_CNT
             THEN LET fetched_size == SizeOfEntries(ents)
                  IN  IF max_size <= fetched_size
                      THEN FetchOutcome("Ok", limit_size(ents, max_size),
                                        NoSlot, <<>>, 0, "stitch_capped")
                      ELSE LET st == StitchSync(last + 1, high, fetched_size,
                                                max_size, <<>>)
                           IN  FetchOutcome(st.res,
                                   IF st.res = "Ok" THEN ents \o st.ents ELSE <<>>,
                                   NoSlot, <<>>, st.reads, "stitch")
             ELSE FallbackOrSchedule(low, high, max_size, res.tried_cnt + 1)

\* mutant of async_fetch: a Fetching slot is treated as an absent one
AsyncFetchOverFetching(low, high, max_size) ==
    LET slot == async_fetch_results[low]
    IN  IF slot.state = "Fetched"
        THEN UseFetched(slot.res, low, high, max_size)
        ELSE FallbackOrSchedule(low, high, max_size, 1)

\* EntryStorage::async_fetch
\* mutant of async_fetch: a fetched result stays in its slot when it is used
AsyncFetchKeepsResult(low, high, max_size) ==
    LET slot == async_fetch_results[low]
    IN  IF slot.state = "Fetching"
        THEN FetchOutcome("LogTemporarilyUnavailable", <<>>, Fetching, <<>>, 0, "fetching")
        ELSE IF slot.state = "Fetched"
        THEN LET r == UseFetched(slot.res, low, high, max_size)
             IN  [r EXCEPT !.slot = IF r.slot = NoSlot THEN slot ELSE r.slot]
        ELSE FallbackOrSchedule(low, high, max_size, 1)

async_fetch(low, high, max_size) ==
    LET slot == async_fetch_results[low]
    IN  IF slot.state = "Fetching"
        THEN FetchOutcome("LogTemporarilyUnavailable", <<>>, Fetching, <<>>, 0, "fetching")
        ELSE IF slot.state = "Fetched"
        THEN UseFetched(slot.res, low, high, max_size)
        ELSE FallbackOrSchedule(low, high, max_size, 1)

\* EntryStorage::entries, the read below the cache: async_fetch in an async
\* context, else one synchronous engine range read
FetchBelowCache(low, high, max_size, can_async) ==
    IF can_async THEN async_fetch(low, high, max_size)
    ELSE LET r == engine_fetch_entries_to(low, high, max_size)
         IN  FetchOutcome(r.err, r.ents, async_fetch_results[low], <<>>, 1, "sync")

\* mutant of entries: a short read below the cache does not end the call, the
\* cache is asked for its part all the same, with the whole byte budget
EntriesPastShortRead(low, high, max_size, can_async) ==
    LET checked == check_range(low, high)
        cache_low == CacheFirstIndex(cache)
        same == FetchOutcome("Ok", <<>>, async_fetch_results[IF low \in Lows THEN low ELSE 1],
                             <<>>, 0, "none")
    IN  IF checked # "Ok" THEN [same EXCEPT !.res = checked, !.branch = "range"]
        ELSE IF low = high THEN [same EXCEPT !.branch = "empty"]
        ELSE IF high <= cache_low
        THEN FetchBelowCache(low, high, max_size, can_async)
        ELSE LET f == IF low < cache_low
                      THEN FetchBelowCache(low, cache_low, max_size, can_async)
                      ELSE same
                 begin_idx == IF low < cache_low THEN cache_low ELSE low
             IN  IF f.res # "Ok" THEN f
                 ELSE IF FetchEntriesPanics(cache, begin_idx, high, 0, max_size)
                 THEN [f EXCEPT !.res = "Panic", !.ents = <<>>]
                 ELSE [f EXCEPT !.ents = @ \o fetch_entries_to(cache, begin_idx, high,
                                                              0, max_size),
                                !.branch = IF low < cache_low THEN "split" ELSE "cache"]

\* EntryStorage::entries
entries(low, high, max_size, can_async) ==
    LET checked == check_range(low, high)
        cache_low == CacheFirstIndex(cache)
        same == FetchOutcome("Ok", <<>>, async_fetch_results[IF low \in Lows THEN low ELSE 1],
                             <<>>, 0, "none")
    IN  IF checked # "Ok" THEN [same EXCEPT !.res = checked, !.branch = "range"]
        ELSE IF low = high THEN [same EXCEPT !.branch = "empty"]
        ELSE IF high <= cache_low
        THEN FetchBelowCache(low, high, max_size, can_async)
        ELSE LET f == IF low < cache_low
                      THEN FetchBelowCache(low, cache_low, max_size, can_async)
                      ELSE same
                 begin_idx == IF low < cache_low THEN cache_low ELSE low
                 fetched_size == SizeOfEntries(f.ents)
             IN  IF f.res # "Ok" THEN f
                 ELSE IF low < cache_low /\ Len(f.ents) < cache_low - low THEN f
                 ELSE IF FetchEntriesPanics(cache, begin_idx, high, fetched_size, max_size)
                 THEN [f EXCEPT !.res = "Panic", !.ents = <<>>]
                 ELSE [f EXCEPT !.ents = @ \o fetch_entries_to(cache, begin_idx, high,
                                                              fetched_size, max_size),
                                !.branch = IF low < cache_low THEN "split" ELSE "cache"]

\* mutant of entry: an index past the cache yields its last entry
EntryOrLast(c, idx) ==
    IF c.cache = <<>> THEN <<>>
    ELSE IF idx < c.cache[1].index THEN <<>>
    ELSE <<c.cache[Min(idx - c.cache[1].index + 1, Len(c.cache))]>>

\* EntryCache::entry: the cached entry at idx, <<>> for None; "Panic" stands
\* for an index past the end of the deque
entry(c, idx) ==
    IF c.cache = <<>> THEN <<>>
    ELSE LET cache_low == c.cache[1].index
         IN  IF idx >= cache_low
             THEN (IF idx - cache_low + 1 <= Len(c.cache)
                   THEN <<c.cache[idx - cache_low + 1]>>
                   ELSE "Panic")
             ELSE <<>>

\* the outcome of term(): result, term, where the term came from and the
\* engine reads made
TermOutcome(res, t, via, reads) == [res |-> res, term |-> t, via |-> via, reads |-> reads]

\* mutant of term: the truncated index is not looked at before the range check
TermNoTruncatedCase(idx) ==
    LET checked == check_range(idx, idx + 1)
    IN  IF checked # "Ok" THEN TermOutcome(checked, 0, "range", 0)
        ELSE IF truncated_term = last_term \/ idx = last_index
        THEN TermOutcome("Ok", last_term, "last_term", 0)
        ELSE LET cached == entry(cache, idx)
             IN  IF cached = "Panic" THEN TermOutcome("Panic", 0, "cache", 0)
                 ELSE IF cached # <<>> THEN TermOutcome("Ok", cached[1].term, "cache", 0)
                 ELSE IF get_entry(idx) = <<>> THEN TermOutcome("Panic", 0, "engine", 1)
                 ELSE TermOutcome("Ok", get_entry(idx)[1].term, "engine", 1)

\* EntryStorage::term
term(idx) ==
    IF idx = truncated_index THEN TermOutcome("Ok", truncated_term, "truncated", 0)
    ELSE LET checked == check_range(idx, idx + 1)
         IN  IF checked # "Ok" THEN TermOutcome(checked, 0, "range", 0)
             ELSE IF truncated_term = last_term \/ idx = last_index
             THEN TermOutcome("Ok", last_term, "last_term", 0)
             ELSE LET cached == entry(cache, idx)
                  IN  IF cached = "Panic" THEN TermOutcome("Panic", 0, "cache", 0)
                      ELSE IF cached # <<>>
                      THEN TermOutcome("Ok", cached[1].term, "cache", 0)
                      ELSE IF get_entry(idx) = <<>>
                      THEN TermOutcome("Panic", 0, "engine", 1)
                      ELSE TermOutcome("Ok", get_entry(idx)[1].term, "engine", 1)

(* ------------------------------ actions -------------------------------- *)
\* the write of an append's WriteTask by the engine: the entries replace
\* the log from their first index on (cut_logs deletes the old tail)
LogAfterWrite(ents) ==
    LET first == ents[1].index
    IN  IF first <= Len(log) + 1
        THEN SubSeq(log, 1, first - 1) \o ents
        ELSE log \o [k \in 1..(first - 1 - Len(log)) |-> NoEntry] \o ents

\* mutant of AppendTask: the cut starts after the previous last index
AppendTaskCutFromPrev(ents, prev_last_index) ==
    [entries |-> ents,
     cut_logs |-> <<prev_last_index + 1, ents[Len(ents)].index + 1>>]

\* EntryStorage::append: the WriteTask it fills, with the cut directive
\* (last_index + 1, prev_last_index + 1)
AppendTask(ents, prev_last_index) ==
    [entries |-> ents,
     cut_logs |-> <<ents[Len(ents)].index + 1, prev_last_index + 1>>]

\* EntryStorage::append, and the write of its task; an empty vector returns
\* at once
StorageAppend(ents) ==
    /\ Running
    /\ IF ents = <<>>
       THEN /\ ret' = [NoRet EXCEPT !.op = "append"]
            /\ UNCHANGED <<log, cache, raft_state, last_term, mem_gauge>>
       ELSE IF AppendPanics(cache, ents)
       THEN /\ ret' = [NoRet EXCEPT !.op = "append", !.res = "Panic"]
            /\ UNCHANGED <<log, cache, raft_state, last_term, mem_gauge>>
       ELSE LET a == CacheAppend(cache, ents)
                last == ents[Len(ents)]
            IN  /\ cache' = a.cache
                /\ mem_gauge' = mem_gauge + a.delta
                /\ raft_state' = [raft_state EXCEPT !.last_index = last.index]
                /\ last_term' = last.term
                /\ log' = LogAfterWrite(ents)
                /\ ret' = [NoRet EXCEPT !.op = "append",
                                        !.task = AppendTask(ents, last_index)]
    /\ UNCHANGED apply_batches
    /\ UNCHANGED <<apply_state, async_fetch_results, fetch_tasks, fetch_results, scheduled>>

\* EntryCache::compact_to, seen from the apply side: the batches the call
\* has popped off the trace queue tr were taken by the cache, and a handle
\* of the apply side on one of them records that take and finds the
\* interior empty from then on
TakenByCache(batches, tr, left) ==
    LET popped == SubSeq(tr, 1, Len(tr) - Len(left))
    IN  [k \in DOMAIN batches |->
            IF \E j \in DOMAIN popped : popped[j].range = batches[k].range
            THEN LET t == take_entries(batches[k])
                 IN  [t.cell EXCEPT !.takes =
                          Append(@, [by |-> "cache", entries |-> t.entries,
                                     dangle |-> t.dangle])]
            ELSE batches[k]]

\* EntryStorage::compact_entry_cache
CompactEntryCache(idx) ==
    /\ Running
    /\ LET r == compact_to(cache, idx)
       IN  /\ cache' = r.cache
           /\ apply_batches' = TakenByCache(apply_batches, cache.trace, r.cache.trace)
           /\ mem_gauge' = mem_gauge + r.delta
           /\ ret' = [NoRet EXCEPT !.op = "compact_to", !.idx = idx,
                                   !.removed = r.removed]
    /\ UNCHANGED <<log, raft_state, apply_state, last_term, async_fetch_results,
                   fetch_tasks, fetch_results, scheduled>>

\* mutant of DrainTo: all but the last entry are chosen when not half
DrainToBeforeLast(cache_len, half) ==
    IF half THEN cache_len \div 2 ELSE Max(cache_len - 2, 0)

\* EntryStorage::evict_entry_cache: the 0-based position in the cache of the
\* entry up to which the cache is drained
DrainTo(cache_len, half) == IF half THEN cache_len \div 2 ELSE cache_len - 1

\* EntryStorage::evict_entry_cache
EvictEntryCache(half) ==
    /\ Running
    /\ IF cache.cache = <<>>
       THEN /\ ret' = [NoRet EXCEPT !.op = "evict"]
            /\ UNCHANGED <<cache, mem_gauge, apply_batches>>
       ELSE LET cache_len == Len(cache.cache)
                drain_to == DrainTo(cache_len, half)
                idx == cache.cache[drain_to + 1].index
                r == compact_to(cache, idx + 1)
            IN  /\ cache' = r.cache
                /\ apply_batches' = TakenByCache(apply_batches, cache.trace, r.cache.trace)
                /\ mem_gauge' = mem_gauge + r.delta
                /\ ret' = [NoRet EXCEPT !.op = "evict", !.idx = idx + 1,
                                        !.removed = r.removed]
    /\ UNCHANGED <<log, raft_state, apply_state, last_term, async_fetch_results,
                   fetch_tasks, fetch_results, scheduled>>

\* EntryStorage::trace_cached_entries with the committed entries [start, end)
TraceCachedEntries(start, end) ==
    /\ Running
    /\ LET r == trace_cached_entries(cache, CachedEntriesNew(SubSeq(log, start, end - 1)))
       IN  /\ cache' = r.cache
           /\ mem_gauge' = mem_gauge + r.delta
           /\ ret' = [NoRet EXCEPT !.op = "trace"]
    /\ UNCHANGED apply_batches
    /\ UNCHANGED <<log, raft_state, apply_state, last_term, async_fetch_results,
                   fetch_tasks, fetch_results, scheduled>>

\* EntryStorage::update_cache_persisted
UpdateCachePersisted(p) ==
    /\ Running
    /\ cache' = [cache EXCEPT !.persisted = p]
    /\ ret' = [NoRet EXCEPT !.op = "update_persisted"]
    /\ UNCHANGED apply_batches
    /\ UNCHANGED <<log, raft_state, apply_state, last_term, async_fetch_results,
                   fetch_tasks, fetch_results, mem_gauge, scheduled>>

\* EntryStorage::set_commit_index
SetCommitIndex(commit) ==
    /\ Running
    /\ IF commit >= commit_index
       THEN /\ raft_state' = [raft_state EXCEPT !.commit = commit]
            /\ ret' = [NoRet EXCEPT !.op = "set_commit_index"]
       ELSE /\ ret' = [NoRet EXCEPT !.op = "set_commit_index", !.res = "Panic"]
            /\ UNCHANGED raft_state
    /\ UNCHANGED apply_batches
    /\ UNCHANGED <<log, cache, apply_state, last_term, async_fetch_results,
                   fetch_tasks, fetch_results, mem_gauge, scheduled>>

\* EntryStorage::set_applied_state
SetAppliedState(state) ==
    /\ Running
    /\ apply_state' = state
    /\ ret' = [NoRet EXCEPT !.op = "set_applied_state"]
    /\ UNCHANGED apply_batches
    /\ UNCHANGED <<log, cache, raft_state, last_term, async_fetch_results,
                   fetch_tasks, fetch_results, mem_gauge, scheduled>>

\* EntryStorage::clear: a new default cache is built, then the old one dropped
Clear ==
    /\ Running
    /\ mem_gauge - total_mem_size(cache) <= MaxGaugeExcess
    /\ cache' = EntryCacheDefault
    /\ mem_gauge' = mem_gauge + total_mem_size(EntryCacheDefault) - total_mem_size(cache)
    /\ ret' = [NoRet EXCEPT !.op = "clear"]
    /\ UNCHANGED apply_batches
    /\ UNCHANGED <<log, raft_state, apply_state, last_term, async_fetch_results,
                   fetch_tasks, fetch_results, scheduled>>

\* EntryCache::entry, called on the cache of the storage
CacheEntry(idx) ==
    /\ Running
    /\ LET e == entry(cache, idx)
       IN  ret' = IF e = "Panic"
                  THEN [NoRet EXCEPT !.op = "cache_entry", !.idx = idx, !.res = "Panic"]
                  ELSE [NoRet EXCEPT !.op = "cache_entry", !.idx = idx, !.ents = e]
    /\ UNCHANGED apply_batches
    /\ UNCHANGED <<log, cache, raft_state, apply_state, last_term, async_fetch_results,
                   fetch_tasks, fetch_results, mem_gauge, scheduled>>

\* EntryStorage::term
Term(idx) ==
    /\ Running
    /\ LET r == term(idx)
       IN  ret' = [NoRet EXCEPT !.op = "term", !.idx = idx, !.res = r.res,
                                !.term = r.term, !.via = r.via, !.sync_reads = r.reads]
    /\ UNCHANGED apply_batches
    /\ UNCHANGED <<log, cache, raft_state, apply_state, last_term, async_fetch_results,
                   fetch_tasks, fetch_results, mem_gauge, scheduled>>

\* at most 3 scheduled tasks are counted per low
CountScheduled(n, tasks) == Min(n + Len(tasks), MAX_ASYNC_FETCH_TRY_CNT)

\* EntryStorage::async_fetch as entries() calls it: the increment of
\* fetch_invalid, made when a fetched result fits neither the range nor the cap
FetchInvalidChange(low, high, max_size, can_async) ==
    LET cache_low == CacheFirstIndex(cache)
    IN  IF /\ can_async
           /\ check_range(low, high) = "Ok"
           /\ low < high
           /\ low < cache_low
           /\ low \in Lows
           /\ async_fetch_results[low] \notin {NoSlot, Fetching}
           /\ async_fetch(low, Min(high, cache_low), max_size).branch
                 \in {"schedule", "fallback"}
        THEN 1 ELSE 0

\* EntryStorage::async_fetch: the increments of the counters fetch_invalid
\* (a fetched result was found unfit), fallback_fetch (synchronous range read
\* after the last try) and async_fetch (a task was scheduled)
AsyncFetchStats(low, high, max_size) ==
    LET branch == async_fetch(low, high, max_size).branch
    IN  [fetch_invalid |-> IF /\ async_fetch_results[low].state = "Fetched"
                              /\ branch \in {"schedule", "fallback"}
                           THEN 1 ELSE 0,
         fallback_fetch |-> IF branch = "fallback" THEN 1 ELSE 0,
         async_fetch |-> IF branch = "schedule" THEN 1 ELSE 0]

\* EntryStorage::entries: the counters of the async_fetch call it makes, if any
EntriesStats(low, high, max_size, can_async) ==
    LET cache_low == CacheFirstIndex(cache)
    IN  IF /\ can_async
           /\ check_range(low, high) = "Ok"
           /\ low < high
           /\ low < cache_low
           /\ low \in Lows
        THEN AsyncFetchStats(low, Min(high, cache_low), max_size)
        ELSE [fetch_invalid |-> 0, fallback_fetch |-> 0, async_fetch |-> 0]

\* EntryStorage::entries: the increments of cache.miss (the range starts below
\* the cache) and cache.hit (the cache is asked for its part of the range)
EntriesCacheStats(low, high, max_size, can_async) ==
    LET cache_low == CacheFirstIndex(cache)
        valid == check_range(low, high) = "Ok" /\ low < high
        f == FetchBelowCache(low, cache_low, max_size, can_async)
    IN  [miss |-> IF valid /\ low < cache_low THEN 1 ELSE 0,
         hit |-> IF /\ valid
                    /\ high > cache_low
                    /\ \/ low >= cache_low
                       \/ f.res = "Ok" /\ Len(f.ents) >= cache_low - low
                 THEN 1 ELSE 0]

\* EntryStorage::async_fetch, called as test_async_fetch calls it; via keeps
\* the branch that answered
AsyncFetch(low, high, max_size) ==
    /\ Running
    /\ LET r == async_fetch(low, high, max_size)
           stats == AsyncFetchStats(low, high, max_size)
       IN  /\ ret' = [NoRet EXCEPT !.op = "async_fetch", !.low = low, !.high = high,
                                   !.max_size = max_size, !.can_async = TRUE,
                                   !.res = r.res, !.ents = r.ents, !.via = r.branch,
                                   !.sync_reads = r.sync_reads, !.tasks = Len(r.tasks),
                                   !.fetch_invalid = stats.fetch_invalid,
                                   !.fallback_fetch = stats.fallback_fetch,
                                   !.async_fetch = stats.async_fetch]
           /\ fetch_tasks' = fetch_tasks \o r.tasks
           /\ async_fetch_results' = [async_fetch_results EXCEPT ![low] = r.slot]
           /\ scheduled' = [scheduled EXCEPT ![low] = CountScheduled(@, r.tasks)]
    /\ UNCHANGED apply_batches
    /\ UNCHANGED <<log, cache, raft_state, apply_state, last_term, fetch_results,
                   mem_gauge>>

\* raft_state_mut().mut_hard_state().set_term(term)
SetHardStateTerm(t) ==
    /\ Running
    /\ raft_state' = [raft_state EXCEPT !.term = t]
    /\ ret' = [NoRet EXCEPT !.op = "set_term", !.term = t]
    /\ UNCHANGED apply_batches
    /\ UNCHANGED <<log, cache, apply_state, last_term, async_fetch_results,
                   fetch_tasks, fetch_results, mem_gauge, scheduled>>

\* EntryStorage::entries
Entries(low, high, max_size, can_async) ==
    /\ Running
    /\ LET r == entries(low, high, max_size, can_async)
       IN  /\ ret' = [NoRet EXCEPT !.op = "entries", !.low = low, !.high = high,
                                   !.max_size = max_size, !.can_async = can_async,
                                   !.res = r.res, !.ents = r.ents,
                                   !.fetch_invalid =
                                       FetchInvalidChange(low, high, max_size, can_async),
                                   !.hit =
                                       EntriesCacheStats(low, high, max_size, can_async).hit,
                                   !.miss =
                                       EntriesCacheStats(low, high, max_size, can_async).miss,
                                   !.fallback_fetch =
                                       EntriesStats(low, high, max_size, can_async).fallback_fetch,
                                   !.async_fetch =
                                       EntriesStats(low, high, max_size, can_async).async_fetch,
                                   !.sync_reads = r.sync_reads, !.tasks = Len(r.tasks),
                                   !.task = IF ret.op = "append" THEN ret.task
                                            ELSE NoRet.task]
           /\ fetch_tasks' = fetch_tasks \o r.tasks
           /\ IF low \in Lows
              THEN /\ async_fetch_results' = [async_fetch_results EXCEPT ![low] = r.slot]
                   /\ scheduled' = [scheduled EXCEPT ![low] = CountScheduled(@, r.tasks)]
              ELSE UNCHANGED <<async_fetch_results, scheduled>>
    /\ UNCHANGED apply_batches
    /\ UNCHANGED <<log, cache, raft_state, apply_state, last_term, fetch_results,
                   mem_gauge>>

\* the fetch worker takes the oldest task, reads the engine and sends the result
WorkerFetch ==
    /\ fetch_tasks # <<>>
    /\ fetch_tasks' = Tail(fetch_tasks)
    /\ fetch_results' = Append(fetch_results, RaftlogFetchResult(Head(fetch_tasks)))
    /\ UNCHANGED apply_batches
    /\ UNCHANGED <<log, cache, raft_state, apply_state, last_term, async_fetch_results,
                   mem_gauge, scheduled, ret>>

\* mutant of UpdateWithResult: the result is stored under the next low
UpdateWithResultNextKey(slots, low, res) ==
    [slots EXCEPT ![IF low + 1 \in DOMAIN slots THEN low + 1 ELSE low] = Fetched(res)]

\* mutant of UpdateWithResult: a result is stored only in a Fetching slot
UpdateWithResultIfFetching(slots, low, res) ==
    IF slots[low] = Fetching THEN [slots EXCEPT ![low] = Fetched(res)] ELSE slots

\* EntryStorage::update_async_fetch_res(low, Some(res)): the slot after the call
UpdateWithResult(slots, low, res) == [slots EXCEPT ![low] = Fetched(res)]

\* mutant of UpdateWithNone: the slot is removed whatever its state
UpdateWithNoneAlways(slots, low) == [slots EXCEPT ![low] = NoSlot]

\* EntryStorage::update_async_fetch_res(low, None): the slot after the call
UpdateWithNone(slots, low) ==
    IF slots[low] = Fetching THEN slots ELSE [slots EXCEPT ![low] = NoSlot]

\* the driver receives the oldest result: update_async_fetch_res(low, Some(res));
\* via keeps the state of the slot the result replaced
DeliverFetchResult ==
    /\ Running
    /\ fetch_results # <<>>
    /\ LET res == Head(fetch_results)
       IN  /\ async_fetch_results' = UpdateWithResult(async_fetch_results, res.low, res)
           /\ ret' = [NoRet EXCEPT !.op = "update_async_fetch_res", !.low = res.low,
                                   !.via = async_fetch_results[res.low].state]
    /\ fetch_results' = Tail(fetch_results)
    /\ UNCHANGED apply_batches
    /\ UNCHANGED <<log, cache, raft_state, apply_state, last_term, fetch_tasks,
                   mem_gauge, scheduled>>

\* EntryStorage::update_async_fetch_res(low, Some(res)) with a result made by
\* the caller, as test_async_fetch does
InjectFetchResult(res) ==
    /\ Running
    /\ async_fetch_results' = UpdateWithResult(async_fetch_results, res.low, res)
    /\ ret' = [NoRet EXCEPT !.op = "update_async_fetch_res", !.low = res.low,
                            !.via = async_fetch_results[res.low].state]
    /\ UNCHANGED apply_batches
    /\ UNCHANGED <<log, cache, raft_state, apply_state, last_term, fetch_tasks,
                   fetch_results, mem_gauge, scheduled>>

\* EntryStorage::update_async_fetch_res(low, None): the increment of
\* fetch_unused, made when a slot was removed
FetchUnusedChange(slots, low) ==
    IF slots[low] # Fetching /\ slots[low] # NoSlot THEN 1 ELSE 0

\* EntryStorage::update_async_fetch_res(low, None)
UpdateAsyncFetchResNone(low) ==
    /\ Running
    /\ async_fetch_results' = UpdateWithNone(async_fetch_results, low)
    /\ ret' = [NoRet EXCEPT !.op = "update_async_fetch_res_none", !.low = low,
                            !.fetch_unused = FetchUnusedChange(async_fetch_results, low)]
    /\ UNCHANGED apply_batches
    /\ UNCHANGED <<log, cache, raft_state, apply_state, last_term, fetch_tasks,
                   fetch_results, mem_gauge, scheduled>>

\* EntryStorage::clean_async_fetch_res
CleanAsyncFetchRes(low) ==
    /\ Running
    /\ async_fetch_results' = [async_fetch_results EXCEPT ![low] = NoSlot]
    /\ ret' = [NoRet EXCEPT !.op = "clean_async_fetch_res"]
    /\ UNCHANGED apply_batches
    /\ UNCHANGED <<log, cache, raft_state, apply_state, last_term, fetch_tasks,
                   fetch_results, mem_gauge, scheduled>>

\* the driver hands the entries [start, end) to the apply side as a
\* CachedEntries (CachedEntries::new); the handle of the apply side keeps,
\* next to the shared interior, whether the cache has traced the batch and
\* what each take_entries call on the batch has obtained
DispatchBatch(start, end) ==
    /\ Running
    /\ LET b == CachedEntriesNew(SubSeq(log, start, end - 1))
       IN  apply_batches' =
               Append(apply_batches,
                      [range |-> b.range, entries |-> b.entries, dangle |-> b.dangle,
                       traced |-> FALSE, takes |-> <<>>])
    /\ ret' = [NoRet EXCEPT !.op = "dispatch"]
    /\ UNCHANGED <<log, cache, raft_state, apply_state, last_term, async_fetch_results,
                   fetch_tasks, fetch_results, mem_gauge, scheduled>>

\* EntryStorage::trace_cached_entries with the k-th batch handed to the
\* apply side: guard.0.last().unwrap() fails on an interior that was taken
TraceDispatched(k) ==
    /\ Running
    /\ LET b == apply_batches[k]
       IN  IF b.entries = <<>>
           THEN /\ ret' = [NoRet EXCEPT !.op = "trace", !.res = "Panic"]
                /\ UNCHANGED <<cache, mem_gauge, apply_batches>>
           ELSE LET r == trace_cached_entries(
                             cache, [range |-> b.range, entries |-> b.entries,
                                     dangle |-> b.dangle])
                IN  /\ cache' = r.cache
                    /\ mem_gauge' = mem_gauge + r.delta
                    /\ apply_batches' =
                           [apply_batches EXCEPT
                               ![k].traced = TRUE,
                               ![k].dangle = r.cache.trace[Len(r.cache.trace)].dangle]
                    /\ ret' = [NoRet EXCEPT !.op = "trace"]
    /\ UNCHANGED <<log, raft_state, apply_state, last_term, async_fetch_results,
                   fetch_tasks, fetch_results, scheduled>>

\* the apply side calls take_entries on its k-th batch: the interior is
\* shared, so the batch in the trace queue is left empty as well
ApplyTakeEntries(k) ==
    /\ Running
    /\ LET b == apply_batches[k]
           t == take_entries(b)
       IN  /\ apply_batches' =
                  [apply_batches EXCEPT ![k] =
                      [t.cell EXCEPT !.takes =
                          Append(@, [by |-> "apply", entries |-> t.entries,
                                     dangle |-> t.dangle])]]
           /\ cache' = [cache EXCEPT !.trace =
                           [j \in DOMAIN cache.trace |->
                               IF cache.trace[j].range = b.range
                               THEN take_entries(cache.trace[j]).cell
                               ELSE cache.trace[j]]]
           /\ ret' = [NoRet EXCEPT !.op = "take_entries", !.ents = t.entries]
    /\ UNCHANGED <<log, raft_state, apply_state, last_term, async_fetch_results,
                   fetch_tasks, fetch_results, mem_gauge, scheduled>>

(* --------------------------- specifications ---------------------------- *)
\* the byte caps a caller passes: none, one that two entries may just fit,
\* and no limit
MaxSizes == {0, 15, U64_MAX}

\* the term of the entry before index i
TermBefore(i) == IF i <= 1 THEN 1 ELSE log[i - 1].term

\* a consecutive run of n entries of term t from index first on
Run(first, n, t) == [k \in 1..n |-> NewEntry(first + k - 1, t)]

\* EntryStorage::new over an empty log
InitStorage(l) ==
    /\ log = l
    /\ cache = EntryCacheDefault
    /\ raft_state = [last_index |-> Len(l), term |-> 1, commit |-> Len(l)]
    /\ apply_state = [applied_index |-> 0, truncated_index |-> 0, truncated_term |-> 0]
    /\ last_term = IF l = <<>> THEN 0 ELSE l[Len(l)].term
    /\ async_fetch_results = [low \in Lows |-> NoSlot]
    /\ fetch_tasks = <<>>
    /\ fetch_results = <<>>
    /\ mem_gauge = total_mem_size(EntryCacheDefault)
    /\ scheduled = [low \in Lows |-> 0]
    /\ apply_batches = <<>>
    /\ ret = NoRet

Init == InitStorage(<<>>)

\* the raft driver appends a run after the committed prefix, at or before
\* the end of the log, with terms that do not decrease along the log
DriverAppend ==
    \E first \in (commit_index + 1)..(last_index + 1), n \in 1..MaxRun :
        \E t \in TermBefore(first)..MaxTerm :
            /\ first + n - 1 <= MaxIndex
            /\ StorageAppend(Run(first, n, t))

DriverCompact == \E idx \in 1..(MaxIndex + 1) : CompactEntryCache(idx)

DriverEvict == \E half \in BOOLEAN : EvictEntryCache(half)

\* the driver hands committed entries to apply in commit order
DriverTrace ==
    \E start \in 1..commit_index, n \in 1..MaxRun :
        /\ Len(cache.trace) < MaxTrace
        /\ start + n - 1 <= commit_index
        /\ cache.trace # <<>> => cache.trace[Len(cache.trace)].range.end <= start
        /\ TraceCachedEntries(start, start + n)

DriverPersisted ==
    \E p \in (cache.persisted + 1)..last_index : UpdateCachePersisted(p)

DriverCommit == \E c \in (commit_index + 1)..last_index : SetCommitIndex(c)

DriverApplied ==
    \E applied \in apply_state.applied_index..commit_index :
        \E tidx \in truncated_index..applied :
            /\ <<applied, tidx>> # <<apply_state.applied_index, truncated_index>>
            /\ SetAppliedState([applied_index |-> applied, truncated_index |-> tidx,
                                truncated_term |-> IF tidx = 0 THEN 0 ELSE log[tidx].term])

SyncEntries ==
    \E low \in 1..last_index, high \in 1..(last_index + 1), max_size \in MaxSizes :
        /\ low <= high
        /\ Entries(low, high, max_size, FALSE)

Next ==
    \/ DriverAppend
    \/ DriverCompact
    \/ DriverEvict
    \/ DriverTrace
    \/ DriverPersisted
    \/ DriverCommit
    \/ SyncEntries

Spec == Init /\ [][Next]_vars

\* the cache and its memory accounting, with the cache dropped by clear()
NextMem ==
    \/ DriverAppend
    \/ DriverCompact
    \/ DriverEvict
    \/ DriverTrace
    \/ DriverPersisted
    \/ DriverCommit
    \/ Clear

SpecMem == Init /\ [][NextMem]_vars

\* a driver that passes any value to update_cache_persisted
AnyPersisted == \E p \in 0..last_index : UpdateCachePersisted(p)

\* a driver that passes any value to set_commit_index
AnyCommit == \E c \in 0..last_index : SetCommitIndex(c)

\* a driver that passes any apply state over the log to set_applied_state
AnyApplied ==
    \E applied \in 0..commit_index :
        \E tidx \in 0..applied :
            SetAppliedState([applied_index |-> applied, truncated_index |-> tidx,
                             truncated_term |-> IF tidx = 0 THEN 0 ELSE log[tidx].term])

\* the operations that move persisted, commit, applied and truncated, called
\* with any argument
NextProgress ==
    \/ DriverAppend
    \/ DriverCompact
    \/ DriverEvict
    \/ AnyPersisted
    \/ AnyCommit
    \/ AnyApplied
    \/ Clear

SpecProgress == Init /\ [][NextProgress]_vars

\* a driver that traces any run of entries of the log, committed or not, in
\* any order
AnyTrace ==
    \E start \in 1..last_index, n \in 1..MaxRun :
        /\ Len(cache.trace) <= MaxTrace
        /\ start + n - 1 <= last_index
        /\ TraceCachedEntries(start, start + n)

NextTrace ==
    \/ DriverAppend
    \/ DriverCommit
    \/ DriverPersisted
    \/ DriverCompact
    \/ AnyTrace

SpecTrace == Init /\ [][NextTrace]_vars

\* the runs of test_storage_cache_update and of the scenarios S1 and S2:
\* entries of chosen indexes and terms
E(i, t) == NewEntry(i, t)
S1First == <<E(3, 3), E(4, 4), E(5, 4), E(6, 6)>>
S1Second == <<E(5, 5), E(6, 5)>>
S2Entries == <<E(5, 6), E(6, 7), E(7, 8), E(8, 7), E(9, 7)>>
ScenarioRuns == {<<>>, S1First, S1Second, S2Entries}

\* EntryStorage::new over a log of two entries
InitScenario == InitStorage(Run(1, 2, 1))

\* the driver appends one of the runs, at or before the end of the log
ScenarioAppend ==
    \E ents \in ScenarioRuns :
        /\ ents # <<>> => ents[1].index <= last_index + 1
        /\ StorageAppend(ents)

ScenarioCompact == \E idx \in 1..(last_index + 1) : CompactEntryCache(idx)

NextScenario ==
    \/ ScenarioAppend
    \/ ScenarioCompact
    \/ DriverPersisted

SpecScenario == InitScenario /\ [][NextScenario]_vars

\* test_storage_cache_entry: the cache of the scenarios is read at any index
\* from 0 to two past the last one
NextEntry ==
    \/ NextScenario
    \/ \E idx \in 0..(last_index + 2) : CacheEntry(idx)

SpecEntry == InitScenario /\ [][NextEntry]_vars

\* the driver asks the term of an index of the log, of the index before it
\* or of the one after it
DriverTerm == \E idx \in 0..(last_index + 1) : Term(idx)

NextTerm ==
    \/ DriverAppend
    \/ DriverCommit
    \/ DriverPersisted
    \/ DriverCompact
    \/ DriverApplied
    \/ DriverTerm

SpecTerm == Init /\ [][NextTerm]_vars

\* a driver that appends at or after the end of the log, or one index further
AppendWithHole ==
    \E first \in (commit_index + 1)..(last_index + 2), n \in 1..MaxRun :
        \E t \in Max(1, last_term)..MaxTerm :
            /\ first + n - 1 <= MaxIndex
            /\ StorageAppend(Run(first, n, t))

NextHole ==
    \/ AppendWithHole
    \/ DriverCommit
    \/ DriverPersisted
    \/ DriverCompact

SpecHole == Init /\ [][NextHole]_vars

(* ----------------------- fetch specifications -------------------------- *)
\* the lows, highs and byte caps of the requests of the fetch specifications
FetchLows == {1}
FetchHighs(low) == {low + 1, low + 2, last_index + 1}
FetchSizes == {15, U64_MAX}

\* EntryStorage::new over a log of FetchLogLen entries of term 1
InitFetch == InitStorage(Run(1, FetchLogLen, 1))

\* entries() over a non-empty range in an async-capable context
DriverAsyncEntries ==
    \E low \in FetchLows :
        \E high \in FetchHighs(low), max_size \in FetchSizes :
            /\ Len(fetch_tasks) + Len(fetch_results)
                 + Len(entries(low, high, max_size, TRUE).tasks) <= MaxInFlight
            /\ Entries(low, high, max_size, TRUE)

\* entries() over an empty range, a reversed range or one past the log
DriverOddRange ==
    \E low \in FetchLows, can_async \in BOOLEAN :
        \E high \in {low - 1, low, last_index + 2} :
            Entries(low, high, U64_MAX, can_async)

\* one entry is appended after the log the peer restarted with
DriverAppendTail ==
    /\ last_index <= FetchLogLen
    /\ StorageAppend(Run(last_index + 1, 1, last_term))

\* the driver reports a truncation of the log
DriverTruncated ==
    \E tidx \in (truncated_index + 1)..MaxTruncated :
        SetAppliedState([applied_index |-> Max(apply_state.applied_index, tidx),
                         truncated_index |-> tidx, truncated_term |-> log[tidx].term])

DriverAbandon == \E low \in FetchLows : UpdateAsyncFetchResNone(low)

DriverClean == \E low \in FetchLows : CleanAsyncFetchRes(low)

NextFetch ==
    \/ DriverAsyncEntries
    \/ DriverOddRange
    \/ WorkerFetch
    \/ DeliverFetchResult
    \/ DriverAbandon
    \/ DriverClean
    \/ DriverAppendTail
    \/ DriverTruncated

SpecFetch == InitFetch /\ [][NextFetch]_vars

\* the retry loop of one request: the driver calls entries() in an async
\* context for one low, again after each delivery, until the call returns
\* something else than LogTemporarilyUnavailable
RetryDone == ret.op = "entries" /\ ret.res # "LogTemporarilyUnavailable"

RetryEntries ==
    \E low \in FetchLows :
        \E high \in FetchHighs(low), max_size \in FetchSizes :
            /\ ~RetryDone
            /\ async_fetch_results[low] # Fetching
            /\ Entries(low, high, max_size, TRUE)

RetryAppendTail == ~RetryDone /\ DriverAppendTail

NextRetry ==
    \/ RetryEntries
    \/ WorkerFetch
    \/ DeliverFetchResult
    \/ RetryAppendTail

\* the worker answers every task, every answer is delivered, and the driver
\* calls again
SpecRetry ==
    /\ InitFetch
    /\ [][NextRetry]_vars
    /\ WF_vars(WorkerFetch)
    /\ WF_vars(DeliverFetchResult)
    /\ WF_vars(RetryEntries)

\* the fetch slots of two lows: requests for short ranges of a log of three
\* entries, results, abandoned and cleaned slots
SlotLows == {1, 2}

InitSlots == InitStorage(Run(1, 3, 1))

SlotsEntries ==
    \E low \in SlotLows :
        \E high \in {low + 1, low + 2} :
            /\ Len(fetch_tasks) + Len(fetch_results)
                 + Len(entries(low, high, U64_MAX, TRUE).tasks) <= MaxInFlight
            /\ Entries(low, high, U64_MAX, TRUE)

SlotsAbandon == \E low \in SlotLows : UpdateAsyncFetchResNone(low)

SlotsClean == \E low \in SlotLows : CleanAsyncFetchRes(low)

NextSlots ==
    \/ SlotsEntries
    \/ WorkerFetch
    \/ DeliverFetchResult
    \/ SlotsAbandon
    \/ SlotsClean

SpecSlots == InitSlots /\ [][NextSlots]_vars

\* the cases of test_async_fetch: over a log of CaseLogLen entries the caller
\* stores a fetched result under a low, sets the term of the hard state and
\* calls async_fetch, one request at a time, or for a low that has no slot
\* while the other low has one; the worker answers the tasks
CaseLogLen == 6
\* the tasks and results in flight at a time in these cases
MaxCaseInFlight == 1
CaseLows == {2, 3}
CaseHighs(low) == {low + 2, CaseLogLen + 1, CaseLogLen + 2}
CaseSizes == {15, U64_MAX}

InitCases == InitStorage(Run(1, CaseLogLen, 1))

\* the results a worker can send for a low: an error, or a run of entries
\* from low on that respects the byte cap of its request
CaseResults(low) ==
    {[ok |-> FALSE, err |-> "Compacted", ents |-> <<>>, low |-> low,
      max_size |-> U64_MAX, hit_size_limit |-> FALSE, tried_cnt |-> 1, term |-> 1]}
    \cup
    {[ok |-> TRUE, err |-> "Ok", ents |-> SubSeq(log, low, last), low |-> low,
      max_size |-> m, hit_size_limit |-> h, tried_cnt |-> n, term |-> 1] :
        last \in low..CaseLogLen, m \in CaseSizes, h \in BOOLEAN,
        n \in 1..MAX_ASYNC_FETCH_TRY_CNT}

Quiet ==
    /\ fetch_tasks = <<>>
    /\ fetch_results = <<>>
    /\ \A low \in Lows : async_fetch_results[low] = NoSlot

CaseInject ==
    \E low \in CaseLows :
        \E res \in CaseResults(low) :
            /\ Quiet
            /\ res.ok => limit_size(res.ents, res.max_size) = res.ents
            /\ InjectFetchResult(res)

CaseAsyncFetch ==
    \E low \in CaseLows :
        \E high \in CaseHighs(low), max_size \in CaseSizes :
            /\ \/ async_fetch_results[low] = NoSlot
               \/ \A other \in Lows \ {low} : async_fetch_results[other] = NoSlot
            /\ Len(fetch_tasks) + Len(fetch_results)
                 + Len(async_fetch(low, high, max_size).tasks) <= MaxCaseInFlight
            /\ AsyncFetch(low, high, max_size)

CaseSetTerm == \E t \in 1..MaxTerm : Quiet /\ SetHardStateTerm(t)

CaseClean == \E low \in CaseLows : CleanAsyncFetchRes(low)

NextCases ==
    \/ CaseInject
    \/ CaseAsyncFetch
    \/ CaseSetTerm
    \/ CaseClean
    \/ WorkerFetch
    \/ DeliverFetchResult

SpecCases == InitCases /\ [][NextCases]_vars

\* reads across the lower end of the cache: the engine holds the entries
\* 1..StraddleLogLen, the entries appended after them are cached; the driver
\* reads in both contexts, and compacts the cache once its entries are persisted
StraddleLogLen == 3
StraddleTail == 2
StraddleLows == {1}

InitStraddle == InitStorage(Run(1, StraddleLogLen, 1))

StraddleAppend ==
    /\ last_index < StraddleLogLen + StraddleTail
    /\ StorageAppend(Run(last_index + 1, 1, last_term))

StraddleEntries ==
    \E low \in StraddleLows, can_async \in BOOLEAN :
        \E high \in (low + 1)..(last_index + 1), max_size \in {15, U64_MAX} :
            /\ Len(fetch_tasks) + Len(fetch_results)
                 + Len(entries(low, high, max_size, can_async).tasks) <= MaxInFlight
            /\ Entries(low, high, max_size, can_async)

StraddlePersisted ==
    /\ cache.persisted < last_index
    /\ UpdateCachePersisted(last_index)

StraddleCompact ==
    /\ Len(cache.cache) > 1
    /\ CompactEntryCache(CacheFirstIndex(cache) + 1)

NextStraddle ==
    \/ StraddleAppend
    \/ StraddleEntries
    \/ StraddlePersisted
    \/ StraddleCompact
    \/ WorkerFetch
    \/ DeliverFetchResult

SpecStraddle == InitStraddle /\ [][NextStraddle]_vars


\* batches handed to the apply side
MaxShared == 2
\* take_entries calls of the apply side on one batch
MaxApplyTakes == 2

\* the batches handed to the apply side: the driver dispatches the committed
\* entries in commit order, traces every batch once, in that order, and the
\* apply side takes the entries of a batch at any time
SharedDispatch ==
    \E n \in 1..MaxRun :
        LET start == IF apply_batches = <<>> THEN 1
                     ELSE apply_batches[Len(apply_batches)].range.end
        IN  /\ Len(apply_batches) < MaxShared
            /\ start + n - 1 <= commit_index
            /\ DispatchBatch(start, start + n)

SharedTrace ==
    \E k \in DOMAIN apply_batches :
        /\ ~apply_batches[k].traced
        /\ \A j \in 1..(k - 1) : apply_batches[j].traced
        /\ TraceDispatched(k)

SharedTake ==
    \E k \in DOMAIN apply_batches :
        /\ Len(SelectSeq(apply_batches[k].takes, LAMBDA t : t.by = "apply")) < MaxApplyTakes
        /\ ApplyTakeEntries(k)

NextShared ==
    \/ DriverAppend
    \/ DriverCommit
    \/ DriverPersisted
    \/ DriverCompact
    \/ SharedDispatch
    \/ SharedTrace
    \/ SharedTake

SpecShared == Init /\ [][NextShared]_vars

\* the batches of test_storage_cache_size_change and of the example of
\* compact_to: the k-th batch covers [(k - 1) * ExampleSpan, k * ExampleSpan),
\* the first one starting at index 1
ExampleSpan == 10
ExampleBatches == 3
\* the arguments of compact_to are the multiples of ExampleStep
ExampleStep == 5

BatchStart(k) == Max(1, (k - 1) * ExampleSpan)
BatchEnd(k) == k * ExampleSpan

\* the driver appends up to the end of a batch
ExampleAppend ==
    \E k \in 1..ExampleBatches :
        /\ last_index < BatchEnd(k) - 1
        /\ StorageAppend(Run(last_index + 1, BatchEnd(k) - 1 - last_index, 1))

ExampleCommit ==
    \E k \in 1..ExampleBatches :
        /\ commit_index < BatchEnd(k) - 1
        /\ BatchEnd(k) - 1 <= last_index
        /\ SetCommitIndex(BatchEnd(k) - 1)

ExamplePersisted ==
    \E k \in 1..ExampleBatches :
        /\ cache.persisted < BatchEnd(k) - 1
        /\ BatchEnd(k) - 1 <= last_index
        /\ UpdateCachePersisted(BatchEnd(k) - 1)

\* the committed batches are handed to the apply side one by one
ExampleDispatch ==
    LET k == Len(apply_batches) + 1
    IN  /\ k <= ExampleBatches
        /\ BatchEnd(k) - 1 <= commit_index
        /\ DispatchBatch(BatchStart(k), BatchEnd(k))

ExampleCompact ==
    \E n \in 1..((ExampleBatches * ExampleSpan) \div ExampleStep) :
        CompactEntryCache(n * ExampleStep)

NextExample ==
    \/ ExampleAppend
    \/ ExampleCommit
    \/ ExamplePersisted
    \/ ExampleDispatch
    \/ SharedTrace
    \/ ExampleCompact

SpecExample == Init /\ [][NextExample]_vars

\* a trace queue that outgrows its first allocation: the log grows at its
\* end by a run of MaxRun entries once the run before it is committed,
\* handed to the apply side and traced, the log is persisted up to its last
\* entry or the one before it, and the cache is compacted up to there
MaxGrowBatches == 8

NextGrow ==
    \/ (/\ last_index < MaxGrowBatches * MaxRun
        /\ last_index = Len(apply_batches) * MaxRun
        /\ \A k \in DOMAIN apply_batches : apply_batches[k].traced
        /\ StorageAppend(Run(last_index + 1, MaxRun, 1)))
    \/ (commit_index < last_index /\ SetCommitIndex(last_index))
    \/ \E p \in {last_index - 1, last_index} :
           /\ cache.persisted < p
           /\ UpdateCachePersisted(p)
    \/ LET start == Len(apply_batches) * MaxRun + 1
       IN  /\ start + MaxRun - 1 <= commit_index
           /\ DispatchBatch(start, start + MaxRun)
    \/ SharedTrace
    \/ CompactEntryCache(cache.persisted + 1)

SpecGrow == Init /\ [][NextGrow]_vars

\* asynchronous reads of a log whose uncommitted entries are overwritten: the
\* driver appends after the committed prefix, under the same or a higher
\* term, persists and compacts, and reads from the first index on in an
\* async-capable context while the worker reads and its results are delivered
NextStale ==
    \/ DriverAppend
    \/ DriverCommit
    \/ DriverPersisted
    \/ DriverCompact
    \/ \E low \in FetchLows :
           \E high \in (low + 1)..(last_index + 1) :
               /\ Len(fetch_tasks) + Len(fetch_results)
                    + Len(entries(low, high, U64_MAX, TRUE).tasks) <= MaxCaseInFlight
               /\ Entries(low, high, U64_MAX, TRUE)
    \/ WorkerFetch
    \/ DeliverFetchResult

SpecStale == Init /\ [][NextStale]_vars


(* ------------------------------- claims -------------------------------- *)
CompactionRet == ret.op \in {"compact_to", "evict"}

\* C1: compact_to (also when called by evict_entry_cache) never removes from
\* the cache window an entry whose index is above `persisted` at the call
\* (compaction leaves `persisted` as it was).
C1_CompactOnlyPersisted ==
    CompactionRet =>
        \A k \in 1..Len(ret.removed) : ret.removed[k].index <= cache.persisted

\* the cache window holds one entry per index of [cache_low, cache_high]
Contiguous(c) == \A k \in 1..Len(c) : c[k].index = c[1].index + k - 1

\* C2: after any sequence of appends (consecutive runs, no hole), compact_to,
\* evict and trace the cache window is empty or holds exactly one entry for
\* every index of [cache_low, cache_high] in increasing order, and no read of a
\* range of the cache fails the per-entry index assertion.
C2_Contiguity ==
    /\ Contiguous(cache.cache)
    /\ ret.res # "Panic"
    /\ \A low \in 1..last_index, high \in 1..(last_index + 1), max_size \in MaxSizes :
           (cache.cache # <<>> /\ cache.cache[1].index <= low /\ low < high)
               => ~FetchEntriesPanics(cache, low, high, 0, max_size)

\* C2 witness: an append has overwritten the tail of a cache window whose
\* front was compacted, leaving at least two entries
C2_Witness ==
    /\ ret.op = "append" /\ ret.res = "Ok"
    /\ ret.task.entries[1].index < ret.task.cut_logs[2]
    /\ cache.cache[1].index >= 2
    /\ cache.cache[1].index < ret.task.entries[1].index

SyncRead == ret.op = "entries" /\ ~ret.can_async

\* C5: in a non-async context with an unbounded max_size, entries(low, high)
\* over a valid range returns exactly the log entries low .. high-1 in order,
\* wherever the range lies relative to the cache.
C5_SyncEntriesExact ==
    (SyncRead /\ ret.max_size = U64_MAX /\ check_range(ret.low, ret.high) = "Ok")
        => /\ ret.res = "Ok"
           /\ ret.ents = SubSeq(log, ret.low, ret.high - 1)

\* C5 witness: a read of three entries that straddles cache_low
C5_Witness ==
    /\ SyncRead /\ ret.max_size = U64_MAX /\ ret.res = "Ok"
    /\ cache.cache # <<>>
    /\ ret.low < cache.cache[1].index
    /\ cache.cache[1].index < ret.high - 1
    /\ Len(ret.ents) = 3

\* the log as an append with first index `first` leaves it
AfterAppend(first, appended) == SubSeq(log, 1, first - 1) \o appended

\* C6: an entries() call with unbounded max_size right after an append of the
\* run e_i..e_j returns exactly the run for [i, j+1), and for any valid range
\* that ends at the new last_index + 1 the retained older entries followed by
\* the appended ones.
C6_AppendRoundTrip ==
    (SyncRead /\ ret.task.entries # <<>> /\ ret.max_size = U64_MAX
              /\ ret.high = last_index + 1 /\ ret.low < ret.high)
        => LET run == ret.task.entries
               i == run[1].index
           IN  /\ ret.res = "Ok"
               /\ ret.high = run[Len(run)].index + 1
               /\ ret.low = i => ret.ents = run
               /\ ret.ents = SubSeq(AfterAppend(i, run), ret.low, ret.high - 1)

\* C6 witness: the append overwrote a diverging tail (its first index is not
\* above the previous last index, its term is new) and the read returns an
\* older entry followed by the run
C6_Witness ==
    /\ SyncRead /\ ret.task.entries # <<>> /\ ret.max_size = U64_MAX
    /\ ret.task.entries[1].index < ret.task.cut_logs[2]
    /\ ret.low < ret.task.entries[1].index
    /\ ret.high = last_index + 1
    /\ ret.ents[1].term # ret.task.entries[1].term
    /\ Len(ret.ents) > Len(ret.task.entries)

\* the number of entries of ents a byte cap allows: the longest prefix whose
\* size is <= max, and at least the first entry
CappedCount(ents, max) ==
    CHOOSE n \in 1..Len(ents) :
        /\ n = 1 \/ SizeOfEntries(SubSeq(ents, 1, n)) <= max
        /\ n = Len(ents) \/ SizeOfEntries(SubSeq(ents, 1, n + 1)) > max

\* C7: in a non-async context entries(low, high, max_size) over a valid
\* non-empty range returns the longest prefix of the log entries of [low, high)
\* whose total size is <= max_size, and always the first entry; the budget is
\* shared by the part read from the engine and the part served by the cache.
C7_SizeCap ==
    (SyncRead /\ check_range(ret.low, ret.high) = "Ok" /\ ret.low < ret.high)
        => LET all == SubSeq(log, ret.low, ret.high - 1)
           IN  /\ ret.res = "Ok"
               /\ ret.ents = SubSeq(all, 1, CappedCount(all, ret.max_size))

\* C7 witness: a capped read whose first entry comes from the engine and whose
\* second comes from the cache, the third not fitting the budget
C7_Witness ==
    /\ SyncRead /\ ret.res = "Ok" /\ ret.max_size = 15
    /\ cache.cache # <<>>
    /\ cache.cache[1].index = ret.low + 1
    /\ Len(ret.ents) = 2
    /\ ret.high = ret.low + 3

\* the fetch tasks for low that are scheduled and not yet delivered
Outstanding(low) ==
    Cardinality({i \in 1..Len(fetch_tasks) : fetch_tasks[i].low = low})
        + Cardinality({i \in 1..Len(fetch_results) : fetch_results[i].low = low})

\* C3: over any interleaving of entries(), result deliveries,
\* update_async_fetch_res(low, None) and clean_async_fetch_res(low), each low
\* has at most one fetch task scheduled and not yet delivered
C3_OneOutstandingTask == \A low \in Lows : Outstanding(low) <= 1

\* C4: when every task is answered and delivered and the driver calls again
\* after each delivery, fewer than MAX_ASYNC_FETCH_TRY_CNT tasks are ever
\* scheduled for the low and the request eventually returns something else
\* than LogTemporarilyUnavailable
C4_RetryTerminates ==
    /\ [](\A low \in Lows : scheduled[low] < MAX_ASYNC_FETCH_TRY_CNT)
    /\ <>RetryDone

\* the request returned at its third attempt, after two scheduled tasks
C4_Witness ==
    /\ RetryDone
    /\ ret.res = "Ok"
    /\ scheduled[ret.low] = MAX_ASYNC_FETCH_TRY_CNT - 1

\* the dangling bytes recorded by the batches of the trace queue
TraceDangle(c) == SumSeq([i \in 1..Len(c.trace) |-> c.trace[i].dangle])

\* C8: the published deltas sum to the payload bytes of the cache window plus
\* the dangling bytes of the traced batches plus the container overhead, so
\* that a cache destroyed by clear() has published zero in total and only the
\* new cache's bytes stay published
C8_MemoryConservation == mem_gauge = total_mem_size(cache) + TraceDangle(cache)

\* the outcome C9 gives to a range
RangeVerdict(low, high) ==
    IF low > high THEN "LowGreaterThanHigh"
    ELSE IF low <= truncated_index THEN "Compacted"
    ELSE IF high > last_index + 1 THEN "OutOfBound"
    ELSE "Ok"

\* C9: entries() rejects a reversed range, then a compacted low, then a high
\* past the log, in that order, and returns nothing for an empty valid range,
\* all without an engine read, a scheduled task or a change of the cache or
\* of a fetch slot
C9_RangeCheckFirst ==
    [][(ret' # ret /\ ret'.op = "entries"
          /\ (RangeVerdict(ret'.low, ret'.high) # "Ok" \/ ret'.low = ret'.high))
        => /\ ret'.res = RangeVerdict(ret'.low, ret'.high)
           /\ ret'.ents = <<>>
           /\ ret'.sync_reads = 0
           /\ ret'.tasks = 0
           /\ UNCHANGED <<log, cache, async_fetch_results, fetch_tasks,
                          fetch_results, scheduled>>]_vars

\* a range both compacted and past the log was rejected as Compacted in an
\* async context while a fetched result for its low was waiting
C9_Witness ==
    /\ ret.op = "entries"
    /\ ret.can_async
    /\ ret.low <= truncated_index
    /\ ret.high > last_index + 1
    /\ ret.res = "Compacted"
    /\ ret.low \in Lows
    /\ async_fetch_results[ret.low] \notin {NoSlot, Fetching}

\* entries() in an async context read the engine synchronously
AsyncContextSyncRead == ret.op = "entries" /\ ret.can_async /\ ret.sync_reads > 0

\* C10 as stated: a synchronous engine read in an async context comes only
\* after three async fetch tasks were scheduled for the same low
C10_SyncReadAfterThreeTasks ==
    AsyncContextSyncRead => scheduled[ret.low] >= MAX_ASYNC_FETCH_TRY_CNT

\* C10: a synchronous engine read in an async context comes only after two
\* async fetch tasks were scheduled for the same low: it is the third try
C10_SyncReadAfterTwoTasks ==
    AsyncContextSyncRead => scheduled[ret.low] >= MAX_ASYNC_FETCH_TRY_CNT - 1

\* the third try read the whole range, of more than RAFT_LOG_MULTI_GET_CNT
\* entries, with one synchronous range fetch after exactly two tasks
C10_Witness ==
    /\ AsyncContextSyncRead
    /\ ret.res = "Ok"
    /\ ret.sync_reads = 1
    /\ Len(ret.ents) = ret.high - ret.low
    /\ Len(ret.ents) > RAFT_LOG_MULTI_GET_CNT
    /\ scheduled[ret.low] = MAX_ASYNC_FETCH_TRY_CNT - 1

\* C11: persisted, commit_index, applied_index and truncated.index never
\* decrease, whatever operation of the storage is called and with whatever
\* argument: a call that would lower one of them is rejected or has no effect
C11_MonotoneProgress ==
    [][/\ cache'.persisted >= cache.persisted
       /\ raft_state'.commit >= raft_state.commit
       /\ apply_state'.applied_index >= apply_state.applied_index
       /\ apply_state'.truncated_index >= apply_state.truncated_index]_vars

\* the batches of a trace queue are in strictly increasing range.start order
TraceOrdered(tr) ==
    \A i \in 1..(Len(tr) - 1) : tr[i].range.start < tr[i + 1].range.start

\* no batch of a trace queue covers an index above the committed prefix
TraceCommitted(tr) == \A i \in 1..Len(tr) : tr[i].range.end - 1 <= commit_index

\* C12: whatever trace calls are interleaved with append and compact_to, the
\* trace queue is in strictly increasing range.start order and covers no index
\* above the committed prefix, the cache rejecting a trace call that would
\* break this
C12_TraceOrdering == TraceOrdered(cache.trace) /\ TraceCommitted(cache.trace)

\* C13: append with a non-empty vector fills the task with the entries and
\* the cut (new last index + 1, previous last index + 1) and moves last_index
\* and last_term to the last appended entry; with an empty vector it changes
\* neither the cache, the raft state, last_term nor the task
C13_AppendFillsTask ==
    [][(ret'.op = "append" /\ ret'.res = "Ok")
         => IF ret'.task.entries = <<>>
            THEN /\ ret'.task = NoRet.task
                 /\ UNCHANGED <<cache, raft_state, last_term, log>>
            ELSE LET ents == ret'.task.entries
                     last == ents[Len(ents)]
                 IN  /\ ret'.task.cut_logs = <<last.index + 1, raft_state.last_index + 1>>
                     /\ raft_state'.last_index = last.index
                     /\ last_term' = last.term]_vars

\* an append that ends below the previous last index: the cut is not empty
C13_Witness ==
    /\ ret.op = "append"
    /\ ret.res = "Ok"
    /\ ret.task.entries = S1Second
    /\ ret.task.cut_logs = <<7, 10>>
    /\ last_index = 6
    /\ last_term = 5

\* the entries of a cache window with an index below first
KeptBelow(window, first) ==
    SubSeq(window, 1, Cardinality({i \in 1..Len(window) : window[i].index < first}))

\* C14: an append that does not fail leaves in the cache the old entries
\* with an index below its first index, followed by exactly the appended
\* entries; S1First then S1Second on an empty cache give
\* [E(3,3), E(4,4), E(5,5), E(6,5)]
C14_CacheAppend ==
    [][(ret'.op = "append" /\ ret'.res = "Ok" /\ ret'.task.entries # <<>>)
         => LET ents == ret'.task.entries
            IN  /\ cache'.cache = KeptBelow(cache.cache, ents[1].index) \o ents
                /\ (cache.cache = <<>> /\ ents = S1First) => cache'.cache = S1First
                /\ (cache.cache = S1First /\ ents = S1Second)
                     => cache'.cache = <<E(3, 3), E(4, 4), E(5, 5), E(6, 5)>>]_vars

\* S1Second was appended over the tail of S1First
C14_Witness ==
    /\ ret.op = "append"
    /\ ret.res = "Ok"
    /\ ret.task.entries = S1Second
    /\ ret.task.cut_logs = <<7, 7>>
    /\ cache.cache = <<E(3, 3), E(4, 4), E(5, 5), E(6, 5)>>

\* the entries of a cache window with an index at or above bound
KeptFrom(window, bound) ==
    SubSeq(window, Cardinality({i \in 1..Len(window) : window[i].index < bound}) + 1,
           Len(window))

\* C15: with an empty trace queue compact_to(idx) keeps exactly the cached
\* entries with an index at or above min(idx, persisted + 1) and does not
\* fail: a no-op on an empty cache or when the bound is at or below
\* cache_low, an empty cache when the bound is above cache_high
C15_CompactClamped ==
    [][(ret'.op = "compact_to" /\ cache.trace = <<>>)
         => LET bound == Min(ret'.idx, cache.persisted + 1)
            IN  /\ ret'.res = "Ok"
                /\ cache'.cache = KeptFrom(cache.cache, bound)
                /\ ret'.removed = KeptBelow(cache.cache, bound)
                /\ (cache.cache = <<>> \/ bound <= CacheFirstIndex(cache))
                     => cache' = cache
                /\ (cache.cache # <<>> /\ bound > CacheLastIndex(cache))
                     => cache'.cache = <<>>]_vars

\* a compaction asked above persisted + 1 removed entries up to persisted only
C15_Witness ==
    /\ ret.op = "compact_to"
    /\ ret.idx > cache.persisted + 1
    /\ ret.removed # <<>>
    /\ cache.cache # <<>>
    /\ cache.cache[1].index = cache.persisted + 1
    /\ cache.trace = <<>>

\* one step of scenario S2: compact_to(idx) on the window `before` with the
\* given persisted leaves the window `after`
S2Step(before, persisted, idx, after) ==
    (cache.cache = before /\ cache.persisted = persisted
        /\ ret'.op = "compact_to" /\ ret'.idx = idx)
      => cache'.cache = after

\* C16 as stated: from S2Entries with persisted 5, compact_to(7) leaves the
\* entries 6..9; with persisted 7, compact_to(7) changes nothing; compact_to(8)
\* leaves 8..9; compact_to(9) leaves 8..9
C16_ScenarioS2AsStated ==
    [][/\ S2Step(S2Entries, 5, 7, SubSeq(S2Entries, 2, 5))
       /\ S2Step(SubSeq(S2Entries, 2, 5), 7, 7, SubSeq(S2Entries, 2, 5))
       /\ S2Step(SubSeq(S2Entries, 2, 5), 7, 8, SubSeq(S2Entries, 4, 5))
       /\ S2Step(SubSeq(S2Entries, 4, 5), 7, 9, SubSeq(S2Entries, 4, 5))]_vars

\* C16: from S2Entries with persisted 5, compact_to(7) leaves the entries
\* 6..9; with persisted 7, compact_to(7) removes entry 6 and leaves 7..9;
\* compact_to(8) leaves 8..9; compact_to(9) leaves 8..9
C16_ScenarioS2 ==
    [][/\ S2Step(S2Entries, 5, 7, SubSeq(S2Entries, 2, 5))
       /\ S2Step(SubSeq(S2Entries, 2, 5), 7, 7, SubSeq(S2Entries, 3, 5))
       /\ S2Step(SubSeq(S2Entries, 3, 5), 7, 8, SubSeq(S2Entries, 4, 5))
       /\ S2Step(SubSeq(S2Entries, 4, 5), 7, 9, SubSeq(S2Entries, 4, 5))]_vars

\* the last step of S2: compact_to(9) with persisted 7 left the entries 8..9
C16_Witness ==
    /\ ret.op = "compact_to"
    /\ ret.idx = 9
    /\ ret.removed = <<>>
    /\ cache.persisted = 7
    /\ cache.cache = <<E(8, 7), E(9, 7)>>

\* the log terms do not decrease with the index
TermsNonDecreasing == \A i \in 1..(Len(log) - 1) : log[i].term <= log[i + 1].term

\* the term of the log at idx; at index 0, before the log, the truncated term
LogTerm(idx) == IF idx = 0 THEN truncated_term ELSE log[idx].term

\* C17: when the log terms do not decrease, term(idx) returns the term of
\* the log entry at idx for truncated.index <= idx <= last_index (the
\* truncated term at the truncated index), Compacted below the truncated
\* index and an out-of-bounds error above last_index; when truncated.term =
\* last_term it answers last_term without a look at the cache or the engine
C17_TermOfIndex ==
    (ret.op = "term" /\ TermsNonDecreasing)
      => /\ ret.idx < truncated_index => ret.res = "Compacted"
         /\ ret.idx > last_index => ret.res = "OutOfBound"
         /\ (truncated_index <= ret.idx /\ ret.idx <= last_index)
              => /\ ret.res = "Ok"
                 /\ ret.term = LogTerm(ret.idx)
                 /\ ret.idx = truncated_index => ret.term = truncated_term
                 /\ (truncated_term = last_term /\ ret.idx # truncated_index)
                      => (ret.term = last_term /\ ret.via = "last_term"
                            /\ ret.sync_reads = 0)

\* the term of an index strictly between the truncated index and the last
\* index was answered from last_term, the two terms being equal
C17_Witness ==
    /\ ret.op = "term"
    /\ ret.res = "Ok"
    /\ truncated_index > 0
    /\ truncated_index < ret.idx
    /\ ret.idx < last_index
    /\ truncated_term = last_term
    /\ ret.via = "last_term"
    /\ ret.term = log[ret.idx].term

\* a step of update_async_fetch_res(low, None)
AbandonStep == ret'.op = "update_async_fetch_res_none" /\ fetch_tasks' = fetch_tasks

\* C18 as stated: update_async_fetch_res(low, None) changes neither the slots
\* nor a counter when the slot of low is Fetching; in every other case it
\* removes the slot and increments fetch_unused
C18_AbandonAsStated ==
    [][AbandonStep
         => IF async_fetch_results[ret'.low] = Fetching
            THEN /\ async_fetch_results' = async_fetch_results
                 /\ ret'.fetch_unused = 0 /\ ret'.fetch_invalid = 0
            ELSE /\ async_fetch_results'
                      = [async_fetch_results EXCEPT ![ret'.low] = NoSlot]
                 /\ ret'.fetch_unused = 1 /\ ret'.fetch_invalid = 0]_vars

\* C18: update_async_fetch_res(low, None) changes neither the slots nor a
\* counter when the slot of low is Fetching or absent; when it is Fetched it
\* removes the slot and increments fetch_unused
C18_Abandon ==
    [][AbandonStep
         => IF async_fetch_results[ret'.low] \in {Fetching, NoSlot}
            THEN /\ async_fetch_results' = async_fetch_results
                 /\ ret'.fetch_unused = 0 /\ ret'.fetch_invalid = 0
            ELSE /\ async_fetch_results'
                      = [async_fetch_results EXCEPT ![ret'.low] = NoSlot]
                 /\ ret'.fetch_unused = 1 /\ ret'.fetch_invalid = 0]_vars

\* a Fetched slot was removed and counted while the other low kept its slot
C18_Witness ==
    /\ ret.op = "update_async_fetch_res_none"
    /\ ret.fetch_unused = 1
    /\ async_fetch_results[ret.low] = NoSlot
    /\ \E other \in SlotLows \ {ret.low} : async_fetch_results[other] # NoSlot

\* C19: update_async_fetch_res(low, Some(result)) leaves Fetched(result) in
\* the slot of low whatever was there, does not fail and changes no other slot
C19_ResultStored ==
    [][(ret'.op = "update_async_fetch_res" /\ Len(fetch_results') < Len(fetch_results))
         => LET res == Head(fetch_results)
            IN  /\ ret'.res = "Ok"
                /\ ret'.low = res.low
                /\ async_fetch_results'[res.low] = Fetched(res)
                /\ \A other \in Lows \ {res.low} :
                       async_fetch_results'[other] = async_fetch_results[other]]_vars

\* a result came for a low whose slot had been removed, the other low having
\* a slot of its own: it stays as a Fetched slot
C19_Witness ==
    /\ ret.op = "update_async_fetch_res"
    /\ ret.via = "None"
    /\ async_fetch_results[ret.low].state = "Fetched"
    /\ \E other \in SlotLows \ {ret.low} : async_fetch_results[other] # NoSlot

\* C20: a task scheduled when low has no slot carries tried_cnt 1; a task
\* scheduled after a stale fetched result was consumed carries that result's
\* tried_cnt + 1, a greater one, and fetch_invalid is incremented
C20_TriedCntGrows ==
    [][Len(fetch_tasks') > Len(fetch_tasks)
         => LET task == fetch_tasks'[Len(fetch_tasks')]
                slot == async_fetch_results[task.low]
            IN  /\ slot # Fetching
                /\ slot = NoSlot => (task.tried_cnt = 1 /\ ret'.fetch_invalid = 0)
                /\ slot # NoSlot
                     => /\ task.tried_cnt = slot.res.tried_cnt + 1
                        /\ task.tried_cnt > slot.res.tried_cnt
                        /\ ret'.fetch_invalid = 1]_vars

\* the second task for a low was scheduled after a stale result
C20_Witness ==
    /\ ret.op = "entries"
    /\ ret.tasks = 1
    /\ ret.fetch_invalid = 1
    /\ fetch_tasks # <<>>
    /\ fetch_tasks[Len(fetch_tasks)].low = ret.low
    /\ fetch_tasks[Len(fetch_tasks)].tried_cnt = 2

\* a step of entries() that calls async_fetch: an async context, a valid
\* non-empty range that starts below the cache
EntriesCallsAsyncFetch ==
    /\ ret'.op = "entries"
    /\ fetch_results' = fetch_results
    /\ ret'.can_async
    /\ RangeVerdict(ret'.low, ret'.high) = "Ok"
    /\ ret'.low < ret'.high
    /\ ret'.low < CacheFirstIndex(cache)

\* C21: while the slot of low is Fetching, async_fetch returns
\* LogTemporarilyUnavailable, schedules no task, leaves the slot Fetching and
\* the counters as they are, and appends nothing; entries() returns that error
C21_FetchingUnavailable ==
    [][(EntriesCallsAsyncFetch /\ async_fetch_results[ret'.low] = Fetching)
         => /\ ret'.res = "LogTemporarilyUnavailable"
            /\ ret'.ents = <<>>
            /\ ret'.tasks = 0
            /\ ret'.sync_reads = 0
            /\ ret'.fetch_invalid = 0
            /\ ret'.fallback_fetch = 0
            /\ ret'.async_fetch = 0
            /\ UNCHANGED <<async_fetch_results, fetch_tasks, scheduled, log, cache>>]_vars

\* entries() was answered LogTemporarilyUnavailable while the task of its low
\* was on the worker
C21_Witness ==
    /\ ret.op = "entries"
    /\ ret.can_async
    /\ ret.res = "LogTemporarilyUnavailable"
    /\ ret.tasks = 0
    /\ async_fetch_results[ret.low] = Fetching
    /\ Len(fetch_tasks) = 1

\* a step of async_fetch
AsyncFetchStep == ret'.op = "async_fetch" /\ fetch_results' = fetch_results

\* C22: with no slot under low, whatever the slots of the other lows,
\* async_fetch installs Fetching under low, schedules exactly one task that
\* carries low, high, max_size, tried_cnt 1 and the current term of the hard
\* state, increments async_fetch, returns LogTemporarilyUnavailable and
\* appends nothing
C22_FirstTrySchedules ==
    [][(AsyncFetchStep /\ async_fetch_results[ret'.low] = NoSlot)
         => /\ async_fetch_results'
                  = [async_fetch_results EXCEPT ![ret'.low] = Fetching]
            /\ fetch_tasks'
                  = Append(fetch_tasks,
                           [low |-> ret'.low, high |-> ret'.high,
                            max_size |-> ret'.max_size, tried_cnt |-> 1,
                            term |-> raft_state.term])
            /\ ret'.async_fetch = 1
            /\ ret'.fallback_fetch = 0
            /\ ret'.fetch_invalid = 0
            /\ ret'.sync_reads = 0
            /\ ret'.res = "LogTemporarilyUnavailable"
            /\ ret'.ents = <<>>]_vars

\* a first task was scheduled under the second term of the hard state for a
\* low without a slot, while a fetched result was stored under the other low
C22_Witness ==
    /\ ret.op = "async_fetch"
    /\ ret.async_fetch = 1
    /\ async_fetch_results[ret.low] = Fetching
    /\ \E other \in CaseLows \ {ret.low} : async_fetch_results[other].state = "Fetched"
    /\ fetch_tasks = <<[low |-> ret.low, high |-> ret.high, max_size |-> ret.max_size,
                        tried_cnt |-> 1, term |-> MaxTerm]>>
    /\ raft_state.term = MaxTerm

\* the fetched result stored under the low of the call
StoredResult == async_fetch_results[ret'.low].res

\* a step of async_fetch that finds a fetched result with entries
FindsFetchedEntries ==
    /\ AsyncFetchStep
    /\ async_fetch_results[ret'.low].state = "Fetched"
    /\ StoredResult.ok

\* the entries of ents with an index below high
Below(ents, high) == SelectSeq(ents, LAMBDA e : e.index < high)

\* C23: a fetched result whose entries reach high - 1 answers the call with
\* its entries of [low, high), cut to the byte cap (the first entry kept) when
\* max_size < res.max_size; the call returns Ok and schedules no task
C23_ResultCoversRange ==
    [][(FindsFetchedEntries
          /\ StoredResult.ents[Len(StoredResult.ents)].index + 1 >= ret'.high)
         => LET window == Below(StoredResult.ents, ret'.high)
                expected == IF ret'.max_size < StoredResult.max_size
                            THEN SubSeq(window, 1, CappedCount(window, ret'.max_size))
                            ELSE window
            IN  /\ ret'.res = "Ok"
                /\ ret'.ents = expected
                /\ expected[1].index = ret'.low
                /\ ret'.tasks = 0
                /\ ret'.sync_reads = 0
                /\ fetch_tasks' = fetch_tasks]_vars

\* scenario S3: the result E(2)..E(6) stored under low 2 answered
\* async_fetch(2, 7, no limit) with these five entries
C23_Witness ==
    /\ ret.op = "async_fetch"
    /\ ret.low = 2 /\ ret.high = 7 /\ ret.max_size = U64_MAX
    /\ ret.res = "Ok"
    /\ ret.ents = SubSeq(log, 2, 6)
    /\ ret.tasks = 0
    /\ ret.sync_reads = 0

\* the fetched result ends before high - 1
ResultEndsShort ==
    /\ FindsFetchedEntries
    /\ StoredResult.ents[Len(StoredResult.ents)].index + 1 < ret'.high

\* C24: a fetched result that ends before high - 1 because it hit its byte cap
\* answers a call whose max_size is <= res.max_size with its entries cut to
\* max_size, at least one, with no task and no engine read; with a larger
\* max_size the result is not reused this way: a task is scheduled or the
\* engine is read, unless the third try finds the result as large as max_size
C24_SizeCappedResult ==
    [][(ResultEndsShort /\ StoredResult.hit_size_limit)
         => IF ret'.max_size <= StoredResult.max_size
            THEN /\ ret'.res = "Ok"
                 /\ ret'.ents = SubSeq(StoredResult.ents, 1,
                                       CappedCount(StoredResult.ents, ret'.max_size))
                 /\ Len(ret'.ents) >= 1
                 /\ SizeOfEntries(ret'.ents) <= ret'.max_size \/ Len(ret'.ents) = 1
                 /\ ret'.tasks = 0
                 /\ ret'.sync_reads = 0
                 /\ fetch_tasks' = fetch_tasks
            ELSE \/ ret'.tasks = 1
                 \/ ret'.sync_reads >= 1
                 \/ /\ StoredResult.tried_cnt + 1 = MAX_ASYNC_FETCH_TRY_CNT
                    /\ ret'.max_size <= SizeOfEntries(StoredResult.ents)]_vars

\* the case "fetch partial entries due to max size limit": a result of two
\* entries that hit the cap of 15 bytes answered async_fetch(3, 7, 15)
C24_Witness ==
    /\ ret.op = "async_fetch"
    /\ ret.via = "size_limit"
    /\ ret.low = 3 /\ ret.high = 7 /\ ret.max_size = 15
    /\ ret.res = "Ok"
    /\ ret.ents = SubSeq(log, 3, 4)
    /\ ret.tasks = 0
    /\ ret.sync_reads = 0

\* the fetched result is left to the stitch branch: it ends before high - 1,
\* is not reusable as a size-capped one, ends less than
\* RAFT_LOG_MULTI_GET_CNT before high - 1 and this is the third try
StitchCase ==
    /\ ResultEndsShort
    /\ ~(StoredResult.hit_size_limit /\ ret'.max_size <= StoredResult.max_size)
    /\ StoredResult.ents[Len(StoredResult.ents)].index + RAFT_LOG_MULTI_GET_CNT
         > ret'.high - 1
    /\ StoredResult.tried_cnt + 1 = MAX_ASYNC_FETCH_TRY_CNT

\* what the stitch returns: the entries of the result, then the entries the
\* engine has from last + 1 on, below high, as many as the byte cap allows;
\* Unavailable when the engine ends before high - 1 and before the cap is hit
Stitched(res, high, max_size) ==
    LET last == res.ents[Len(res.ents)].index
        avail == SubSeq(log, last + 1, Min(high - 1, Len(log)))
        fits(k) == SizeOfEntries(res.ents) + SizeOfEntries(SubSeq(avail, 1, k)) <= max_size
        take == CHOOSE k \in 0..Len(avail) :
                    /\ fits(k)
                    /\ k = Len(avail) \/ ~fits(k + 1)
    IN  IF take = Len(avail) /\ last + Len(avail) < high - 1
        THEN [res |-> "Unavailable", ents |-> <<>>]
        ELSE [res |-> "Ok", ents |-> res.ents \o SubSeq(avail, 1, take)]

\* C25 as stated: in the stitch case async_fetch returns the entries of the
\* result followed by the engine's entries from last + 1 on, read one by one
\* up to the byte cap, or Unavailable with nothing appended when the engine
\* has no entry at a needed index, and schedules no task
C25_StitchAsStated ==
    [][StitchCase
         => LET st == Stitched(StoredResult, ret'.high,
                               Max(ret'.max_size, SizeOfEntries(StoredResult.ents)))
            IN  /\ ret'.res = st.res
                /\ ret'.ents = st.ents
                /\ ret'.tasks = 0
                /\ fetch_tasks' = fetch_tasks]_vars

\* C25: in the stitch case, when max_size is <= the size of the entries of the
\* result, async_fetch returns these entries cut to max_size (the first one
\* kept) without an engine read; else it returns them followed by the engine's
\* entries from last + 1 on, read one by one up to the byte cap, or Unavailable
\* with nothing appended when the engine has no entry at a needed index; it
\* schedules no task
C25_Stitch ==
    [][StitchCase
         => /\ IF ret'.max_size <= SizeOfEntries(StoredResult.ents)
               THEN /\ ret'.res = "Ok"
                    /\ ret'.ents = SubSeq(StoredResult.ents, 1,
                                          CappedCount(StoredResult.ents, ret'.max_size))
                    /\ ret'.sync_reads = 0
               ELSE LET st == Stitched(StoredResult, ret'.high, ret'.max_size)
                    IN  /\ ret'.res = st.res
                        /\ ret'.ents = st.ents
                        /\ ret'.sync_reads >= 1
            /\ ret'.tasks = 0
            /\ ret'.fallback_fetch = 0
            /\ fetch_tasks' = fetch_tasks]_vars

\* scenario S5: the result E(3)..E(5) with tried_cnt 2 answered
\* async_fetch(3, 7, no limit) with E(3)..E(6), the last one read from the engine
C25_Witness ==
    /\ ret.op = "async_fetch"
    /\ ret.via = "stitch"
    /\ ret.low = 3 /\ ret.high = 7 /\ ret.max_size = U64_MAX
    /\ ret.res = "Ok"
    /\ ret.ents = SubSeq(log, 3, 6)
    /\ ret.sync_reads = 1
    /\ ret.tasks = 0

\* the fetched result is stale at the last try: it ends before high - 1, is
\* not reusable as a size-capped one, is not left to the stitch branch, and
\* its tried_cnt + 1 reaches MAX_ASYNC_FETCH_TRY_CNT
FallbackCase ==
    /\ ResultEndsShort
    /\ ~(StoredResult.hit_size_limit /\ ret'.max_size <= StoredResult.max_size)
    /\ ~StitchCase
    /\ StoredResult.tried_cnt + 1 >= MAX_ASYNC_FETCH_TRY_CNT

\* C26: at the last try a stale fetched result is dropped: async_fetch
\* schedules no task, installs no Fetching slot, increments fallback_fetch and
\* returns the outcome of one synchronous engine read of [low, high) under the
\* byte cap, whatever the term of the result and the current term
C26_FallbackAtTryLimit ==
    [][FallbackCase
         => LET r == engine_fetch_entries_to(ret'.low, ret'.high, ret'.max_size)
                all == SubSeq(log, ret'.low, ret'.high - 1)
            IN  /\ ret'.tasks = 0
                /\ fetch_tasks' = fetch_tasks
                /\ async_fetch_results'[ret'.low] = NoSlot
                /\ ret'.fallback_fetch = 1
                /\ ret'.async_fetch = 0
                /\ ret'.sync_reads = 1
                /\ ret'.res = r.err
                /\ ret'.ents = r.ents
                /\ ret'.high <= Len(log) + 1
                     => /\ ret'.res = "Ok"
                        /\ ret'.ents = SubSeq(all, 1, CappedCount(all, ret'.max_size))]_vars

\* the case "term is changed": under the second term the result E(3)..E(5) of
\* the first term, with tried_cnt 3, was dropped and async_fetch(3, 7, no
\* limit) read E(3)..E(6) from the engine
C26_Witness ==
    /\ ret.op = "async_fetch"
    /\ ret.via = "fallback"
    /\ ret.fallback_fetch = 1
    /\ raft_state.term = MaxTerm
    /\ ret.low = 3 /\ ret.high = 7 /\ ret.max_size = U64_MAX
    /\ ret.res = "Ok"
    /\ ret.ents = SubSeq(log, 3, 6)
    /\ ret.tasks = 0
    /\ async_fetch_results[3] = NoSlot

\* C27: a fetched result that holds an error answers async_fetch with that
\* error; nothing is appended, no task is scheduled, no Fetching slot is
\* installed and the engine is not read
C27_ErrorPropagated ==
    [][(AsyncFetchStep
          /\ async_fetch_results[ret'.low].state = "Fetched"
          /\ ~StoredResult.ok)
         => /\ ret'.res = StoredResult.err
            /\ ret'.res \notin {"Ok", "LogTemporarilyUnavailable"}
            /\ ret'.ents = <<>>
            /\ ret'.tasks = 0
            /\ ret'.sync_reads = 0
            /\ ret'.async_fetch = 0
            /\ ret'.fallback_fetch = 0
            /\ fetch_tasks' = fetch_tasks
            /\ async_fetch_results'[ret'.low] # Fetching]_vars

\* the case "already compacted": the result Compacted stored under low 3
\* answered async_fetch(3, 7, no limit) with Compacted
C27_Witness ==
    /\ ret.op = "async_fetch"
    /\ ret.via = "error"
    /\ ret.low = 3 /\ ret.high = 7 /\ ret.max_size = U64_MAX
    /\ ret.res = "Compacted"
    /\ ret.ents = <<>>
    /\ ret.tasks = 0
    /\ fetch_tasks = <<>>
    /\ async_fetch_results[3] = NoSlot

\* a step of entries()
EntriesStep == ret'.op = "entries" /\ fetch_results' = fetch_results

\* the entries are a run of consecutive indices from low on, below high
RunFrom(ents, low, high) ==
    /\ \A k \in 1..Len(ents) : ents[k].index = low + k - 1
    /\ ents # <<>> => low + Len(ents) <= high

\* C28: entries(low, high, max_size) returns a run of consecutive indices that
\* starts at low and ends below high, in both contexts; over a range that goes
\* from below the cache into it, a read of [low, cache_low) that yields fewer
\* than cache_low - low entries is returned as it is, with no cached entry and
\* no cache hit counted, and a complete one counts a cache hit
C28_GapFreeResult ==
    [][EntriesStep
         => LET cache_low == CacheFirstIndex(cache)
                straddles == /\ RangeVerdict(ret'.low, ret'.high) = "Ok"
                             /\ ret'.low < cache_low
                             /\ cache_low < ret'.high
                below == SubSeq(log, ret'.low, cache_low - 1)
            IN  /\ RunFrom(ret'.ents, ret'.low, ret'.high)
                /\ ret'.res # "Ok" => ret'.ents = <<>> /\ ret'.hit = 0
                /\ (straddles /\ ret'.res = "Ok")
                     => /\ ret'.miss = 1
                        /\ IF Len(ret'.ents) < cache_low - ret'.low
                           THEN /\ ret'.hit = 0
                                /\ \A k \in 1..Len(ret'.ents) :
                                       ret'.ents[k].index < cache_low
                           ELSE ret'.hit = 1
                /\ (straddles /\ ~ret'.can_async
                      /\ CappedCount(below, ret'.max_size) < Len(below))
                     => /\ ret'.ents = SubSeq(below, 1, CappedCount(below, ret'.max_size))
                        /\ ret'.hit = 0]_vars

\* a read in an async context from below the cache into it was answered with
\* a shorter run that ends below the cache: the fetched result had hit the
\* byte cap
C28_Witness ==
    /\ ret.op = "entries"
    /\ ret.can_async
    /\ ret.res = "Ok"
    /\ cache.cache # <<>>
    /\ ret.low < CacheFirstIndex(cache)
    /\ CacheFirstIndex(cache) < ret.high
    /\ ret.ents # <<>>
    /\ Len(ret.ents) < CacheFirstIndex(cache) - ret.low
    /\ ret.hit = 0
    /\ ret.miss = 1

\* the runs a driver may pass to append
AppendRuns ==
    {Run(first, n, t) : first \in 1..MaxIndex, n \in 1..MaxRun, t \in 1..MaxTerm}

\* C29: an append whose first index is <= cache_high fails an assertion
\* exactly when the range of the last traced batch ends above that first
\* index, wherever the first index lies relative to the cache
C29_TracedNeverTruncated ==
    [][\A ents \in AppendRuns :
           (/\ StorageAppend(ents)
            /\ cache.cache # <<>>
            /\ ents[1].index <= CacheLastIndex(cache)
            /\ cache.trace # <<>>)
           => (ret'.res = "Panic"
                 <=> cache.trace[Len(cache.trace)].range.end > ents[1].index)]_vars

\* C30: an append to a non-empty cache whose first index is above
\* cache_high + 1 panics, the cache window never has a gap, and no append is
\* accepted whose first index is above the index after the last one of the log
C30_NoHoleAccepted ==
    [][\A ents \in AppendRuns :
           StorageAppend(ents)
           => /\ (cache.cache # <<>> /\ CacheLastIndex(cache) + 1 < ents[1].index)
                   => ret'.res = "Panic"
              /\ Contiguous(cache'.cache)
              /\ ret'.res # "Panic" => ents[1].index <= last_index + 1]_vars

\* the running idx of compact_to after the first k batches of tr are removed
RECURSIVE RaisedIdx(_, _, _)
RaisedIdx(tr, k, idx) ==
    IF k = 0 THEN idx ELSE Max(RaisedIdx(tr, k - 1, idx), tr[k].range.end)

\* the dangle bytes of the first k batches of tr
RECURSIVE DangleOfFirst(_, _)
DangleOfFirst(tr, k) == IF k = 0 THEN 0 ELSE DangleOfFirst(tr, k - 1) + tr[k].dangle

\* the ranges of the batches of a trace queue
RangesOf(tr) == [j \in DOMAIN tr |-> <<tr[j].range.start, tr[j].range.end>>]

\* C31: compact_to(idx) removes from the front of the trace queue exactly the
\* leading batches that start below the running idx (idx clamped to
\* persisted + 1, then raised to the end of each removed batch), stops at
\* the first batch that starts at or above it, subtracts the dangle bytes of
\* the removed batches and drops the cache entries below the raised idx;
\* with the batches [1,10), [10,20), [20,30) and everything persisted,
\* compact_to(15) keeps [20,30) only and no cache entry below 20
C31_CompactDrainsTrace ==
    [][(ret'.op = "compact_to" /\ fetch_results' = fetch_results)
         => LET tr == cache.trace
                idx0 == Min(ret'.idx, cache.persisted + 1)
                k == Len(tr) - Len(cache'.trace)
                idx == RaisedIdx(tr, k, idx0)
                below == SelectSeq(cache.cache, LAMBDA e : e.index < idx)
            IN  /\ k >= 0
                /\ cache'.trace = SubSeq(tr, k + 1, Len(tr))
                /\ \A j \in 1..k : tr[j].range.start < RaisedIdx(tr, j - 1, idx0)
                /\ k < Len(tr) => tr[k + 1].range.start >= idx
                /\ cache'.cache = SelectSeq(cache.cache, LAMBDA e : e.index >= idx)
                /\ ret'.removed = below
                /\ mem_gauge' - mem_gauge =
                       ENTRY_MEM_SIZE * (cache'.cache_cap - cache.cache_cap)
                       + CACHED_ENTRIES_MEM_SIZE * (cache'.trace_cap - cache.trace_cap)
                       - DangleOfFirst(tr, k) - PayloadOfEntries(below)
                /\ (/\ RangesOf(tr) = <<<<1, 10>>, <<10, 20>>, <<20, 30>>>>
                    /\ cache.persisted >= 29
                    /\ ret'.idx = 15)
                     => /\ RangesOf(cache'.trace) = <<<<20, 30>>>>
                        /\ \A j \in DOMAIN cache'.cache : cache'.cache[j].index >= 20]_vars

\* compact_to(15) has removed the first two of the three traced batches and
\* the cache entries below 20
C31_Witness ==
    /\ ret.op = "compact_to"
    /\ ret.idx = ExampleSpan + ExampleStep
    /\ Len(apply_batches) = ExampleBatches
    /\ \A k \in 1..2 : /\ Len(apply_batches[k].takes) = 1
                        /\ apply_batches[k].takes[1].by = "cache"
    /\ apply_batches[3].takes = <<>>
    /\ RangesOf(cache.trace) = <<<<BatchStart(3), BatchEnd(3)>>>>
    /\ Len(ret.removed) = BatchStart(3) - 1
    /\ cache.cache # <<>>
    /\ cache.cache[1].index = BatchStart(3)

\* a step of trace_cached_entries that pushed a batch: the dangle size it
\* stored is the payload of the entries of the batch below cache_low, the
\* batch is the new back of the trace queue, the cache window and persisted
\* are as they were, and the gauge moved by the dangle size, plus the
\* capacity change of the trace queue when with_capacity
TracePushes(with_capacity) ==
    (ret'.op = "trace" /\ ret'.res = "Ok" /\ fetch_results' = fetch_results)
      => /\ Len(cache'.trace) = Len(cache.trace) + 1
         /\ LET b == cache'.trace[Len(cache'.trace)]
                below == IF cache.cache = <<>> THEN b.entries
                         ELSE SelectSeq(b.entries,
                                        LAMBDA e : e.index < CacheFirstIndex(cache))
            IN  /\ SubSeq(cache'.trace, 1, Len(cache.trace)) = cache.trace
                /\ b.dangle = PayloadOfEntries(below)
                /\ (cache.cache = <<>> \/ b.range.end <= CacheFirstIndex(cache))
                     => b.dangle = PayloadOfEntries(b.entries)
                /\ (cache.cache # <<>> /\ b.range.start >= CacheFirstIndex(cache))
                     => b.dangle = 0
                /\ cache'.cache = cache.cache
                /\ cache'.cache_cap = cache.cache_cap
                /\ cache'.persisted = cache.persisted
                /\ mem_gauge' - mem_gauge =
                       b.dangle
                       + (IF with_capacity
                          THEN CACHED_ENTRIES_MEM_SIZE * (cache'.trace_cap - cache.trace_cap)
                          ELSE 0)

\* C32 as claimed: trace(batch) stores as dangle_size the payload bytes of
\* the batch entries below cache_low (all of them when the cache is empty or
\* the batch ends below cache_low, none when it starts at or above
\* cache_low), pushes the batch at the back of the trace queue, publishes
\* that sum, and leaves the cache window and persisted unchanged
C32_PublishesDangleOnly == [][TracePushes(FALSE)]_vars

\* C32, amended: as claimed, but what trace(batch) publishes is that sum
\* plus the capacity change of the trace queue, 24 bytes per slot
C32_TraceDangle == [][TracePushes(TRUE)]_vars

\* a batch was traced of which a part only is below cache_low
C32_Witness ==
    /\ ret.op = "trace"
    /\ ret.res = "Ok"
    /\ cache.trace # <<>>
    /\ cache.cache # <<>>
    /\ LET b == cache.trace[Len(cache.trace)]
       IN  /\ b.range.start < CacheFirstIndex(cache)
           /\ CacheFirstIndex(cache) < b.range.end
           /\ 0 < b.dangle
           /\ b.dangle < PayloadOfEntries(b.entries)

\* a step of evict_entry_cache(half): nothing on an empty cache, else
\* compact_to(chosen + 1), chosen being the index of the midpoint entry when
\* half and cache_high - back otherwise
EvictCompacts(back) ==
    \A half \in BOOLEAN :
        EvictEntryCache(half)
        => IF cache.cache = <<>>
           THEN UNCHANGED <<cache, mem_gauge, log, raft_state>>
           ELSE LET chosen == IF half
                              THEN cache.cache[Len(cache.cache) \div 2 + 1].index
                              ELSE CacheLastIndex(cache) - back
                    r == compact_to(cache, chosen + 1)
                IN  /\ ret'.idx = chosen + 1
                    /\ cache' = r.cache
                    /\ ret'.removed = r.removed
                    /\ mem_gauge' = mem_gauge + r.delta

\* C33 as claimed: evict_entry_cache(half) on a non-empty cache invokes
\* compact_to(chosen + 1), chosen being the index of the midpoint entry when
\* half and cache_high - 1 otherwise (all but the last entry are asked to be
\* dropped); on an empty cache it does nothing
C33_EvictKeepsLast == [][EvictCompacts(1)]_vars

\* C33, amended: when not half, chosen is cache_high, so that every entry of
\* the cache is asked to be dropped
C33_EvictChoosesLast == [][EvictCompacts(0)]_vars

\* evict_entry_cache(false) has emptied a cache of three persisted entries
C33_Witness ==
    /\ ret.op = "evict"
    /\ Len(ret.removed) >= 3
    /\ ret.idx = ret.removed[Len(ret.removed)].index + 1
    /\ cache.cache = <<>>

\* C34: of the take_entries calls made on a batch by the apply side and by
\* the cache, in whatever order, the first one obtains the entries of the
\* batch and its dangle size and every other one an empty vector and 0, so
\* at most one taker has dangle bytes to subtract; the interior the two
\* sides see is the same
C34_TakenOnce ==
    \A k \in DOMAIN apply_batches :
        LET h == apply_batches[k]
        IN  /\ h.takes # <<>>
                 => /\ Len(h.takes[1].entries) = h.range.end - h.range.start
                    /\ h.takes[1].entries[1].index = h.range.start
                    /\ h.entries = <<>>
                    /\ h.dangle = 0
            /\ \A j \in 2..Len(h.takes) :
                   h.takes[j].entries = <<>> /\ h.takes[j].dangle = 0
            /\ \A j \in DOMAIN cache.trace :
                   cache.trace[j].range = h.range
                     => /\ cache.trace[j].entries = h.entries
                        /\ cache.trace[j].dangle = h.dangle

\* the cache took a traced batch with dangling entries first, and the apply
\* side called take_entries on it twice afterwards
C34_Witness ==
    \E k \in DOMAIN apply_batches :
        LET h == apply_batches[k]
        IN  /\ h.traced
            /\ Len(h.takes) = 3
            /\ h.takes[1].by = "cache"
            /\ h.takes[1].dangle > 0
            /\ h.takes[2].by = "apply"
            /\ h.takes[3].by = "apply"

\* C38: trace_cached_entries completes without failure in every interleaving
\* of the batch being handed to the apply side and being traced, also when
\* the apply side has taken the entries of the batch before the trace
C38_TraceNeverFails == ret.op = "trace" => ret.res = "Ok"

\* C35: cache.entry(idx) returns the cached entry of index idx for every idx
\* from cache_low to cache_high, nothing for an idx below cache_low and for
\* an empty cache, and fails for an idx above cache_high of a non-empty
\* cache; it never returns an entry of another index
C35_CacheEntry ==
    ret.op = "cache_entry"
      => LET idx == ret.idx
         IN  /\ (ret.res = "Ok" /\ ret.ents # <<>>)
                  => /\ Len(ret.ents) = 1
                     /\ ret.ents[1].index = idx
                     /\ \E j \in DOMAIN cache.cache : cache.cache[j] = ret.ents[1]
             /\ IF cache.cache = <<>> \/ idx < CacheFirstIndex(cache)
                THEN ret.res = "Ok" /\ ret.ents = <<>>
                ELSE IF idx <= CacheLastIndex(cache)
                THEN ret.res = "Ok" /\ ret.ents # <<>>
                ELSE ret.res = "Panic"

\* test_storage_cache_entry: entry(6) of the cache [3, 4, 5, 6] is the entry
\* of index 6 and term 6
C35_Witness ==
    /\ ret.op = "cache_entry"
    /\ ret.idx = 6
    /\ ret.ents = <<E(6, 6)>>
    /\ cache.cache = S1First

\* C37: in every state reached by append, compact_entry_cache,
\* evict_entry_cache and trace_cached_entries the cache is empty or ends at
\* raft_state.last_index, so that every index from cache_low to last_index
\* is in the cache and no assertion of the cache read path fails
C37_CacheEndsAtLastIndex ==
    /\ cache.cache # <<>>
         => /\ CacheLastIndex(cache) = last_index
            /\ Contiguous(cache.cache)
            /\ \A idx \in CacheFirstIndex(cache)..last_index :
                   /\ entry(cache, idx) # "Panic"
                   /\ entry(cache, idx) # <<>>
                   /\ entry(cache, idx)[1].index = idx
    /\ ret.op = "entries" => ret.res # "Panic"

\* a read up to the last index was served from a compacted cache whose
\* last entry was appended under the highest term
C37_Witness ==
    /\ ret.op = "entries"
    /\ ret.ents # <<>>
    /\ ret.high = last_index + 1
    /\ cache.cache # <<>>
    /\ CacheFirstIndex(cache) > 1
    /\ ret.low >= CacheFirstIndex(cache)
    /\ ret.ents[Len(ret.ents)].index = last_index
    /\ ret.ents[Len(ret.ents)].term = MaxTerm

\* a call of async_fetch that found a fetched result in the slot of its low
\* leaves the slot absent or Fetching, with a retry scheduled under the
\* next tried_cnt in the latter case; a second identical call uses no
\* result: it schedules a fetch with tried_cnt = 1, which it does only on an
\* absent slot unless always_new, the slot left Fetching making it answer
\* LogTemporarilyUnavailable with no new task
ConsumedOnce(always_new) ==
    \A low \in CaseLows : \A high \in CaseHighs(low), max_size \in CaseSizes :
        (/\ ret'.op = "async_fetch"
         /\ fetch_results' = fetch_results
         /\ <<ret'.low, ret'.high, ret'.max_size>> = <<low, high, max_size>>
         /\ async_fetch_results[low].state = "Fetched")
          => LET res == async_fetch_results[low].res
                 second == async_fetch(low, high, max_size)'
                 fresh == /\ second.branch = "schedule"
                          /\ Len(second.tasks) = 1
                          /\ second.tasks[1].tried_cnt = 1
                          /\ second.tasks[1].low = low
             IN  /\ async_fetch_results'[low] \in {NoSlot, Fetching}
                 /\ async_fetch_results'[low] = Fetching
                      => /\ ret'.via = "schedule"
                         /\ fetch_tasks' # <<>>
                         /\ fetch_tasks'[Len(fetch_tasks')].tried_cnt = res.tried_cnt + 1
                 /\ second.ents = <<>>
                 /\ second.res = "LogTemporarilyUnavailable"
                 /\ IF always_new \/ async_fetch_results'[low] = NoSlot
                    THEN fresh
                    ELSE second.branch = "fetching" /\ second.tasks = <<>>

\* C39 as claimed: whenever async_fetch finds a Fetched slot for low, the
\* slot is removed whichever branch is taken, so that after the call it is
\* absent or Fetching, and a second identical call does not reuse the
\* result but starts a new fetch with tried_cnt = 1
C39_SecondCallFetchesAnew == [][ConsumedOnce(TRUE)]_vars

\* C39, amended: the second identical call starts a new fetch with
\* tried_cnt = 1 when the first one left the slot absent, and returns
\* LogTemporarilyUnavailable without a new task when the first one left it
\* Fetching for a retry
C39_ConsumedOnce == [][ConsumedOnce(FALSE)]_vars

\* a fetched result was returned by async_fetch and its slot is absent
C39_Witness ==
    /\ ret.op = "async_fetch"
    /\ ret.via = "covers"
    /\ ret.res = "Ok"
    /\ ret.ents # <<>>
    /\ async_fetch_results[ret.low] = NoSlot

\* C36: whatever the order of asynchronous reads, worker reads, deliveries
\* and appends, also appends that overwrite indexes of a fetch in flight or
\* delivered, every entry entries() returns is the entry the log holds at
\* that index when entries() returns: no result read before an overwrite
\* is served
C36_NoStaleEntry ==
    (ret.op = "entries" /\ ret.res = "Ok")
      => \A i \in DOMAIN ret.ents :
             /\ ret.ents[i].index <= Len(log)
             /\ ret.ents[i] = log[ret.ents[i].index]

\* a result as the worker sends it: an error, or a non-empty run of
\* consecutive entries that starts at the low of its task
WellFormedResult(res) ==
    res.ok => /\ res.ents # <<>>
              /\ \A k \in DOMAIN res.ents : res.ents[k].index = res.low + k - 1

\* C40: with results that are an error or a non-empty consecutive run from
\* the low of their task, delivered under the key of that low, no assertion
\* of async_fetch fails (slot key = res.low, first index = res.low, last
\* index = high - 1 after the truncation of a covering result), and every
\* scheduled task carries a tried_cnt from 1 to MAX_ASYNC_FETCH_TRY_CNT - 1
C40_AssertionsHold ==
    /\ \A low \in Lows :
           async_fetch_results[low].state = "Fetched"
             => /\ async_fetch_results[low].res.low = low
                /\ WellFormedResult(async_fetch_results[low].res)
    /\ \A k \in DOMAIN fetch_results : WellFormedResult(fetch_results[k])
    /\ ret.op \in {"async_fetch", "entries"}
         => /\ ret.res # "Panic"
            /\ ret.via # "panic"
            /\ (ret.via = "covers" /\ ret.max_size = U64_MAX)
                 => /\ ret.ents # <<>>
                    /\ ret.ents[Len(ret.ents)].index = ret.high - 1
    /\ \A k \in DOMAIN fetch_tasks :
           /\ 1 <= fetch_tasks[k].tried_cnt
           /\ fetch_tasks[k].tried_cnt < MAX_ASYNC_FETCH_TRY_CNT

\* a result that fits neither the range nor the cap passed the assertions
\* and its fetch was scheduled again, for the second time
C40_Witness ==
    /\ ret.op = "async_fetch"
    /\ ret.via = "schedule"
    /\ ret.fetch_invalid = 1
    /\ fetch_tasks # <<>>
    /\ fetch_tasks[Len(fetch_tasks)].tried_cnt = MAX_ASYNC_FETCH_TRY_CNT - 1
    /\ fetch_tasks[Len(fetch_tasks)].low = ret.low

====
